---------------------------- MODULE Spec2Model ----------------------------
(***************************************************************************)
(* State-machine model of the retrieval pipeline of D-notebook-ai:         *)
(*   src/src/services/geminiService.js  (in-memory store, retry wrapper,   *)
(*                                        batch embedding, query pipeline) *)
(*   src/unnamed/part_000               (documentService: persistent       *)
(*                                        documents / document_chunks /    *)
(*                                        conversations tables)            *)
(***************************************************************************)
EXTENDS Integers, Sequences, FiniteSets, TLC

VARIABLES
  \* ---- retryWithAdvancedBackoff (one invocation of the wrapper) ----
  rMax,        \* options.maxRetries
  rMaxDelay,   \* options.maxDelay
  rAttempt,    \* loop variable `attempt`
  rCalls,      \* number of times fn() has been invoked
  rStatus,     \* "running" | "returned" | "thrown"
  rDelays,     \* the waits performed so far (ms), in order
  rLastError,  \* `lastError`: the error of the latest failed attempt
  rThrown,     \* the error the wrapper rethrew (NoError while none)
  \* ---- processDocumentChunksInBatches (one invocation) ----
  eN,          \* enhancedDocs.length
  eDim,        \* length of the vectors the embedding provider returns
  eInitBatch,  \* config.initialBatchSize
  eMinBatch,   \* config.minBatchSize
  eScript,     \* per chunk index: what embedQuery does on successive calls
  eQueue,      \* `queue`: chunk indexes still to embed
  eResults,    \* `results`: Map index -> embedding
  eBatchSize,  \* `currentBatchSize`
  eConsecFail, \* `consecutiveFailures`
  eConsecSucc, \* `consecutiveSuccesses`
  eStatus,     \* "running" | "done"
  eOut,        \* the returned array `finalEmbeddings`
  eBatches,    \* the batches taken so far: [size, chunks, failed]
  \* ---- embedding normalisation at the persistent-store boundary ----
  nChunkCount, \* storeDocumentChunks: chunks.length of the latest call
  nEmbIn,      \* storeDocumentChunks: the `embeddings` argument
  nRows,       \* storeDocumentChunks: the embedding column of upsertData
  nQueryIn,    \* performVectorSearch: the `queryEmbedding` argument
  nQueryOut,   \* performVectorSearch: what became of it (sent / rejected)
  \* ---- module state of geminiService.js and the persistent tables ----
  geminiApiKey,  \* TRUE once initializeGemini stored a key (and window.geminiAI)
  vectorStore,   \* the MemoryVectorStore: [exists, docs]; exists = FALSE is null
  documentIds,   \* the Set `documentIds`
  documents,     \* ids of the rows of table documents
  dbChunks,      \* rows of table document_chunks
  conversations, \* table conversations: conversation -> document_context
  docChunkCount, \* per document id: number of chunks its text splits into
  lastOp,        \* the latest operation, its arguments and its result
  \* ---- deduplicateDocuments (one call) ----
  dIn,         \* the argument `docs`
  dOut,        \* the returned list `result`
  dDone,       \* TRUE once the call has returned
  \* ---- the hook useRagSystem and the table documents it loads from ----
  uDocuments,  \* length of the hook's state `documents`
  uStored,     \* rows of table documents that getDocuments returns to the user
  uUpload,     \* the processPdfForRag call in flight, if any
  uLast,       \* the latest finished call and its result
  \* ---- module state of geminiService.js: the performance counters ----
  ragPerformanceMetrics, \* [queries, successfulQueries, failedQueries]
  \* ---- one search of the persistent store ----
  sEnv,        \* the session and what the store answers: [loggedIn, rpc, sql, text]
  sTable,      \* the user's rows of document_chunks
  sQuery,      \* the query: [valid, keywords, matching, limit]
  sUser,       \* the user's question and documents: [words, active]
  sVector,     \* what performVectorSearch did
  sDatabase,   \* what getRelevantDocsFromDatabase did
  \* ---- repeated storeDocumentChunks calls for one document ----
  tChunkCount, \* chunks.length
  tTable,      \* rows of table document_chunks
  tCalls,      \* calls made so far
  tLast,       \* the latest call: [status, failed upsert batches]
  tStoredOnce, \* TRUE once a call stored every batch
  tBefore,     \* rows of table document_chunks before the latest call
  \* ---- getRelevantDocsFromMemory (one call) ----
  mNull,       \* TRUE when vectorStore is null
  mStore,      \* the chunks held by the in-memory store
  mVariations, \* queryVariations.length
  mTried,      \* variations the loop has tried so far
  mAll,        \* `allRelevantDocs`
  mBreak,      \* TRUE once the loop left through `break`
  mStatus,     \* "loop" | "returned"
  mOut,        \* the returned list
  \* ---- the retrieval stage of queryWithRAG (one query) ----
  qQuery,      \* the argument `query`
  qMem,        \* what getRelevantDocsFromMemory does: [threw, docs]
  qEnv,        \* the embedding provider and the persistent store
  qOut,        \* the stage's record: the persistent search made and `relevantDocs`
  qStatus,     \* "start" | "done"
  \* ---- ensureReferences (one answer) ----
  fResponse,   \* the argument `response`
  fCitations,  \* the argument `citations`
  fOut,        \* the returned string
  fTwice,      \* the result of ensureReferences(fOut, citations)
  fStatus,     \* "start" | "once" | "twice"
  \* ---- concurrent calls on the in-memory store ----
  cHeap,       \* the MemoryVectorStore objects created so far: their memoryVectors
  cStore,      \* the module variable `vectorStore`: an index of cHeap, 0 for null
  cDocumentIds, \* the Set `documentIds`
  cIngest,     \* per document: the processDocumentForRag call, [pc, store]
  cRemove,     \* per document: the clearRAGSystem(documentId) call, [pc, store, fresh, keep]
  cClears,     \* clearRAGSystem() calls made
  cCompleted,  \* documents whose ingestion completed and that were not removed or cleared since
  \* ---- one clearRAGSystem(documentId) call ----
  xStore,      \* vectorStore: [exists, count], count[d] = entries of document d
  xDocumentIds, \* the Set `documentIds`
  xEnv,        \* [apiKey: window.geminiAI?._apiKey is set, session: sessionId is set]
  xCall,       \* the call made: [result, documentId, store, documentIds] (state before)
  \* ---- sendMessage calls of the chat hook ----
  hMessages,    \* the messages state (useChatSystem.js 18): sequence of [id, role, content, typing]
  hIsProcessing,\* the isProcessing state (19)
  hError,       \* the error state (22): "null" or the kind of message set
  hPc,          \* position of the running call: "idle", "querying", "saving", "savingUser", "linking"
  hCall,        \* the running or last call: [before, content, time, response, outcome]
  hClock,       \* Date.now()
  hSends        \* calls made so far

varsRetry == <<rMax, rMaxDelay, rAttempt, rCalls, rStatus, rDelays, rLastError, rThrown>>

varsEmbed == <<eN, eDim, eInitBatch, eMinBatch, eScript, eQueue, eResults,
               eBatchSize, eConsecFail, eConsecSucc, eStatus, eOut, eBatches>>

varsNorm == <<nChunkCount, nEmbIn, nRows, nQueryIn, nQueryOut>>

varsRag == <<geminiApiKey, vectorStore, documentIds, documents, dbChunks,
             conversations, docChunkCount, lastOp>>

varsDedup == <<dIn, dOut, dDone>>

varsUpload == <<uDocuments, uStored, uUpload, uLast>>

varsMetrics == <<ragPerformanceMetrics>>

varsSearch == <<sEnv, sTable, sQuery, sUser, sVector, sDatabase>>

varsStore == <<tChunkCount, tTable, tCalls, tLast, tStoredOnce, tBefore>>

varsMemory == <<mNull, mStore, mVariations, mTried, mAll, mBreak, mStatus, mOut>>

varsSupplement == <<qQuery, qMem, qEnv, qOut, qStatus>>

varsReferences == <<fResponse, fCitations, fOut, fTwice, fStatus>>

varsConcurrent == <<cHeap, cStore, cDocumentIds, cIngest, cRemove, cClears, cCompleted>>

varsClear == <<xStore, xDocumentIds, xEnv, xCall>>

varsSend == <<hMessages, hIsProcessing, hError, hPc, hCall, hClock, hSends>>

vars == <<varsRetry, varsEmbed, varsNorm, varsRag, varsDedup, varsUpload, varsMetrics, varsSearch, varsStore, varsMemory, varsSupplement, varsReferences, varsConcurrent, varsClear, varsSend>>

-----------------------------------------------------------------------------
(* Small helpers *)

Min(a, b) == IF a < b THEN a ELSE b

Max(a, b) == IF a > b THEN a ELSE b

RECURSIVE Pow2(_)
Pow2(n) == IF n = 0 THEN 1 ELSE 2 * Pow2(n - 1)

-----------------------------------------------------------------------------
(* retryWithAdvancedBackoff, geminiService.js 1425-1500 *)

\* Bound on options.maxRetries explored (call sites pass 5 and 6).
MaxRetriesBound == 6

\* options.initialDelay at every call site.
InitialDelay == 1000

\* options.maxDelay at the three call sites.
MaxDelays == {10000, 12000, 15000}

\* default options.retryStatusCodes, passed unchanged by every call site
RetryStatusCodes == {429, 500, 502, 503, 504}

NoError == [status |-> 0, respStatus |-> 0, msg |-> "none"]

\* Representative errors fn() can throw: error.status, error.response.status
\* and error.message (a message is represented by a token; what the code
\* tests on it is given by MsgHasCode / MsgIncludes below).
Errors ==
  { [status |-> 429, respStatus |-> 0,   msg |-> "too many requests"],
    [status |-> 0,   respStatus |-> 503, msg |-> "upstream"],
    [status |-> 0,   respStatus |-> 0,   msg |-> "got status 504"],
    [status |-> 0,   respStatus |-> 0,   msg |-> "failed to fetch"],
    [status |-> 0,   respStatus |-> 0,   msg |-> "Resource Exhausted"],
    [status |-> 0,   respStatus |-> 0,   msg |-> "Deadline exceeded"],
    [status |-> 0,   respStatus |-> 0,   msg |-> "Service Unavailable"],
    [status |-> 400, respStatus |-> 0,   msg |-> "API key not valid"],
    [status |-> 400, respStatus |-> 0,   msg |-> "input exceeds 500 tokens"],
    [status |-> 0,   respStatus |-> 0,   msg |-> "Failed to fetch"],
    [status |-> 0,   respStatus |-> 404, msg |-> "model not found"] }

\* error.message.includes(`${code}`)
MsgHasCode(msg, code) ==
  \/ msg = "got status 504" /\ code = 504
  \/ msg = "input exceeds 500 tokens" /\ code = 500

\* error.message.includes('failed to fetch'): the match is case-sensitive,
\* the message "Failed to fetch" of a rejected fetch() does not contain it
MsgIncludesFetch(msg) == msg = "failed to fetch"

\* error.message.toLowerCase().includes(phrase) for the three Gemini phrases
MsgIncludesTransientPhrase(msg) ==
  msg \in {"Resource Exhausted", "Deadline exceeded", "Service Unavailable"}

\* lines 1441-1468: the shouldRetry decision
ShouldRetry(error) ==
  \/ error.status # 0 /\ error.status \in RetryStatusCodes
  \/ error.respStatus # 0 /\ error.respStatus \in RetryStatusCodes
  \/ \E code \in RetryStatusCodes : MsgHasCode(error.msg, code)
  \/ MsgIncludesFetch(error.msg)
  \/ MsgIncludesTransientPhrase(error.msg)

\* a delay that does not grow with the attempt
ExponentialDelayConstant(maxDelay, attempt) == Min(maxDelay, InitialDelay)

\* lines 1477-1480
ExponentialDelay(maxDelay, attempt) == Min(maxDelay, InitialDelay * Pow2(attempt))

\* line 1483: exponentialDelay * (0.8 + Math.random() * 0.4); Math.random()
\* lies in [0, 1), sampled here at its lowest, middle and a near-highest value
JitterPercents == {80, 100, 119}

Jitter(expDelay, pct) == (expDelay * pct) \div 100

\* a loop condition that admits one attempt too many
LoopContinuesOffByOne(attempt, maxRetries) == attempt <= maxRetries

\* line 1435: the for-loop condition
LoopContinues(attempt, maxRetries) == attempt < maxRetries

InitRetry ==
  /\ rMax \in 1..MaxRetriesBound
  /\ rMaxDelay \in MaxDelays
  /\ rAttempt = 0
  /\ rCalls = 0
  /\ rStatus = "running"
  /\ rDelays = <<>>
  /\ rLastError = NoError
  /\ rThrown = NoError

\* lines 1436-1437: fn() resolves, the wrapper returns its value
RetryFnSucceeds ==
  /\ rStatus = "running"
  /\ LoopContinues(rAttempt, rMax)
  /\ rCalls' = rCalls + 1
  /\ rStatus' = "returned"
  /\ UNCHANGED <<rMax, rMaxDelay, rAttempt, rDelays, rLastError, rThrown>>

\* lines 1438-1494: fn() throws; rethrow at once or wait and go round again
RetryFnFails ==
  /\ rStatus = "running"
  /\ LoopContinues(rAttempt, rMax)
  /\ \E error \in Errors, pct \in JitterPercents :
       /\ rCalls' = rCalls + 1
       /\ rLastError' = error
       /\ IF ~ShouldRetry(error)
            THEN /\ rStatus' = "thrown"
                 /\ rThrown' = error
                 /\ UNCHANGED <<rAttempt, rDelays>>
            ELSE /\ rDelays' = Append(rDelays, Jitter(ExponentialDelay(rMaxDelay, rAttempt), pct))
                 /\ rAttempt' = rAttempt + 1
                 /\ UNCHANGED <<rStatus, rThrown>>
  /\ UNCHANGED <<rMax, rMaxDelay>>

\* lines 1497-1499: the loop is exhausted, the last error is rethrown
RetryExhausted ==
  /\ rStatus = "running"
  /\ ~LoopContinues(rAttempt, rMax)
  /\ rStatus' = "thrown"
  /\ rThrown' = rLastError
  /\ UNCHANGED <<rMax, rMaxDelay, rAttempt, rCalls, rDelays, rLastError>>

-----------------------------------------------------------------------------
(* processDocumentChunksInBatches, geminiService.js 1611-1733 *)

\* Bound on the number of chunks handed to one call.
MaxEmbedChunks == 3

\* EXPECTED_DIMENSIONS, and the length of every `new Array(1536).fill(0)`
EXPECTED_DIMENSIONS == 1536

\* maxRetries passed to retryWithAdvancedBackoff at line 1667
EmbedMaxRetries == 5

\* Output lengths of the embedding provider that are explored: shorter than,
\* equal to and longer than EXPECTED_DIMENSIONS.
NativeDims == {EXPECTED_DIMENSIONS \div 2, EXPECTED_DIMENSIONS, 2 * EXPECTED_DIMENSIONS}

\* (initialBatchSize, minBatchSize): the defaults of line 1614-1615 and two
\* smaller configurations that split the input into several batches
BatchConfigs == { <<10, 2>>, <<2, 1>>, <<3, 2>> }

\* the vector embeddings.embedQuery returns for the chunk at `index`
ProviderVector(index, dim) == [k \in 1..dim |-> 1 + ((k + index) % 3)]

\* new Array(1536).fill(0)
ZeroVector == [k \in 1..EXPECTED_DIMENSIONS |-> 0]

Rate429 == [status |-> 429, respStatus |-> 0, msg |-> "too many requests"]

BadKey == [status |-> 400, respStatus |-> 0, msg |-> "API key not valid"]

\* What embedQuery does on successive calls for one chunk: entry k is the
\* error of call k, NoError meaning the call resolves; the last entry repeats.
Scripts ==
  { <<NoError>>,
    <<Rate429, Rate429, Rate429, NoError>>,
    <<Rate429>>,
    <<BadKey>>,
    <<Rate429, BadKey>> }

ScriptAt(script, call) == script[Min(call, Len(script))]

\* maxDelay passed to retryWithAdvancedBackoff at line 1669
EmbedMaxDelay == 12000

\* retryWithAdvancedBackoff run to completion against a script: whether it
\* returned or threw, how often fn() was called, and the exponentialDelay of
\* every wait (the wait itself is that delay with the jitter applied)
RECURSIVE RetryRun(_, _, _)
RetryRun(script, maxRetries, attempt) ==
  IF ~LoopContinues(attempt, maxRetries)
    THEN [status |-> "thrown", calls |-> attempt, delays |-> << >>]
    ELSE LET r == ScriptAt(script, attempt + 1) IN
         IF r = NoError
           THEN [status |-> "returned", calls |-> attempt + 1, delays |-> << >>]
         ELSE IF ~ShouldRetry(r)
           THEN [status |-> "thrown", calls |-> attempt + 1, delays |-> << >>]
         ELSE [RetryRun(script, maxRetries, attempt + 1) EXCEPT
                 !.delays = <<ExponentialDelay(EmbedMaxDelay, attempt)>> \o @]

\* the wrapper throws for this script: the retries are exhausted or an
\* error is not retriable, and the .catch of line 1674 supplies the zero vector
EmbeddingFails(script) == RetryRun(script, EmbedMaxRetries, 0).status = "thrown"

\* an embedding step that ignores the failure of the wrapper
EmbedOneNoFallback(index, script, dim) == ProviderVector(index, dim)

\* lines 1660-1679: one element of the Promise.all; the .catch turns a
\* throwing wrapper into the zero vector, so the promise never rejects
EmbedOne(index, script, dim) ==
  IF RetryRun(script, EmbedMaxRetries, 0).status = "returned"
    THEN ProviderVector(index, dim)
    ELSE ZeroVector

\* lines 1633-1649: the batch size used by the next iteration
AdjustedBatchSize(size, fails, succs, initSize, minSize) ==
  IF fails > 0 THEN Max(minSize, size \div 2)
  ELSE IF succs >= 3 THEN Min(initSize, size + 1)
  ELSE size

\* lines 1640, 1648: the counters after the adjustment
AdjustedSuccesses(fails, succs) == IF fails = 0 /\ succs >= 3 THEN 0 ELSE succs

\* queue.splice(0, batchSize)
Take(seq, n) == SubSeq(seq, 1, Min(n, Len(seq)))

Drop(seq, n) == SubSeq(seq, Min(n, Len(seq)) + 1, Len(seq))

SeqRange(seq) == {seq[k] : k \in 1..Len(seq)}

\* lines 1723-1725: results.get(index) || zero vector, in input order
FinalEmbeddings(n, results) ==
  [k \in 1..n |-> IF (k - 1) \in DOMAIN results THEN results[k - 1] ELSE ZeroVector]

InitEmbed ==
  /\ eN \in 1..MaxEmbedChunks
  /\ eDim \in NativeDims
  /\ \E cfg \in BatchConfigs : eInitBatch = cfg[1] /\ eMinBatch = cfg[2]
  /\ eScript \in [0..(eN - 1) -> Scripts]
  /\ eQueue = [k \in 1..eN |-> k - 1]
  /\ eResults = << >>
  /\ eBatchSize = eInitBatch
  /\ eConsecFail = 0
  /\ eConsecSucc = 0
  /\ eStatus = "running"
  /\ eOut = << >>
  /\ eBatches = << >>

\* the batch function not in use
IdleEmbed ==
  /\ eN = 0
  /\ eDim = EXPECTED_DIMENSIONS
  /\ eInitBatch = 10
  /\ eMinBatch = 2
  /\ eScript = << >>
  /\ eQueue = << >>
  /\ eResults = << >>
  /\ eBatchSize = 10
  /\ eConsecFail = 0
  /\ eConsecSucc = 0
  /\ eStatus = "done"
  /\ eOut = << >>
  /\ eBatches = << >>

\* lines 1631-1697: one iteration of the while loop.  Every promise of the
\* Promise.all carries its own .catch, so the try block completes and the
\* batch-level catch of lines 1698-1719 is not entered.
EmbedBatch ==
  /\ eStatus = "running"
  /\ Len(eQueue) > 0
  /\ LET size  == AdjustedBatchSize(eBatchSize, eConsecFail, eConsecSucc, eInitBatch, eMinBatch)
         succs == AdjustedSuccesses(eConsecFail, eConsecSucc)
         batch == Take(eQueue, size)
     IN /\ eBatchSize' = size
        /\ eQueue' = Drop(eQueue, size)
        /\ eResults' = [i \in DOMAIN eResults \cup SeqRange(batch) |->
                          IF i \in SeqRange(batch)
                            THEN EmbedOne(i, eScript[i], eDim)
                            ELSE eResults[i]]
        /\ eConsecSucc' = succs + 1
        /\ eConsecFail' = 0
        /\ eBatches' = Append(eBatches,
                              [size |-> size, chunks |-> batch,
                               failed |-> \A i \in SeqRange(batch) : EmbeddingFails(eScript[i])])
  /\ UNCHANGED <<eN, eDim, eInitBatch, eMinBatch, eScript, eStatus, eOut>>

\* lines 1722-1727: the queue is empty, the result array is built and returned
EmbedReturn ==
  /\ eStatus = "running"
  /\ Len(eQueue) = 0
  /\ eOut' = FinalEmbeddings(eN, eResults)
  /\ eStatus' = "done"
  /\ UNCHANGED <<eN, eDim, eInitBatch, eMinBatch, eScript, eQueue, eResults,
                 eBatchSize, eConsecFail, eConsecSucc, eBatches>>

-----------------------------------------------------------------------------
(* Embedding normalisation: storeDocumentChunks, part_000 290-345, and     *)
(* performVectorSearch, part_000 840-873                                    *)

\* Bound on chunks.length (and on the length of the embeddings argument less one).
MaxNormChunks == 2

\* a component that fails `typeof val === 'number' && !isNaN(val) && isFinite(val)`
NaN == -1

\* an embedding argument is absent (null / undefined) or an array of components
NullEmbedding == [isNull |-> TRUE, vec |-> << >>]

Emb(vec) == [isNull |-> FALSE, vec |-> vec]

\* an array of n finite numbers
NumericVector(n) == [k \in 1..n |-> 1 + (k % 3)]

\* the same array with its last component not a finite number
TaintedVector(n) == [k \in 1..n |-> IF k = n THEN NaN ELSE 1 + (k % 3)]

InputLengths == {EXPECTED_DIMENSIONS - 1, EXPECTED_DIMENSIONS, EXPECTED_DIMENSIONS + 1}

InputEmbeddings ==
  {NullEmbedding} \cup {Emb(NumericVector(n)) : n \in InputLengths}
                  \cup {Emb(TaintedVector(n)) : n \in InputLengths}

\* embArray.some(val => typeof val !== 'number' || isNaN(val) || !isFinite(val))
HasInvalidValues(vec) == \E k \in 1..Len(vec) : vec[k] = NaN

\* while (padded.length < EXPECTED_DIMENSIONS) padded.push(0)
PadToD(vec) == [k \in 1..EXPECTED_DIMENSIONS |-> IF k <= Len(vec) THEN vec[k] ELSE 0]

\* embArray.slice(0, EXPECTED_DIMENSIONS)
SliceToD(vec) == SubSeq(vec, 1, EXPECTED_DIMENSIONS)

\* part_000 290-297: the embeddings array is rebuilt when it is absent or its
\* length differs from chunks.length (validEmbeddings[i] || zero vector)
FilledEmbeddings(n, embs) ==
  IF embs.isNull \/ Len(embs.vec) # n
    THEN [k \in 1..n |->
            IF ~embs.isNull /\ k <= Len(embs.vec) /\ ~embs.vec[k].isNull
              THEN embs.vec[k]
              ELSE Emb(ZeroVector)]
    ELSE embs.vec

\* a normalisation that pads one component too few
ProcessEmbeddingPadShort(e) ==
  IF e.isNull THEN ZeroVector
  ELSE IF HasInvalidValues(e.vec) THEN ZeroVector
  ELSE IF Len(e.vec) = EXPECTED_DIMENSIONS THEN e.vec
  ELSE IF Len(e.vec) > EXPECTED_DIMENSIONS THEN SliceToD(e.vec)
  ELSE [k \in 1..(EXPECTED_DIMENSIONS - 1) |-> IF k <= Len(e.vec) THEN e.vec[k] ELSE 0]

\* part_000 308-345: one element of processedEmbeddings
ProcessEmbedding(e) ==
  IF e.isNull THEN ZeroVector
  ELSE IF HasInvalidValues(e.vec) THEN ZeroVector
  ELSE IF Len(e.vec) = EXPECTED_DIMENSIONS THEN e.vec
  ELSE IF Len(e.vec) > EXPECTED_DIMENSIONS THEN SliceToD(e.vec)
  ELSE PadToD(e.vec)

\* part_000 847-863: processedEmbedding of performVectorSearch
AdjustQuery(vec) ==
  IF Len(vec) = EXPECTED_DIMENSIONS THEN vec
  ELSE IF Len(vec) > EXPECTED_DIMENSIONS THEN SliceToD(vec)
  ELSE PadToD(vec)

\* part_000 840-873: the query vector handed to the store, or the throw
ProcessQuery(q) ==
  IF q.isNull THEN [status |-> "rejected", vec |-> << >>]
  ELSE IF HasInvalidValues(AdjustQuery(q.vec)) THEN [status |-> "rejected", vec |-> << >>]
  ELSE [status |-> "sent", vec |-> AdjustQuery(q.vec)]

\* the `embeddings` arguments explored for a call with n chunks: absent, or
\* an array of at most n embeddings (shorter arrays exercise the rebuild)
EmbeddingArguments(n) ==
  {[isNull |-> TRUE, vec |-> << >>]} \cup
  {[isNull |-> FALSE, vec |-> v] : v \in UNION {[1..m -> InputEmbeddings] : m \in 0..n}}

\* the arguments of one storeDocumentChunks call; nothing processed yet
InitNorm ==
  /\ nChunkCount \in 1..MaxNormChunks
  /\ nEmbIn \in EmbeddingArguments(nChunkCount)
  /\ nRows = << >>
  /\ nQueryIn = NullEmbedding
  /\ nQueryOut = [status |-> "none", vec |-> << >>]

IdleNorm ==
  /\ nChunkCount = 0
  /\ nEmbIn = [isNull |-> TRUE, vec |-> << >>]
  /\ nRows = << >>
  /\ nQueryIn = NullEmbedding
  /\ nQueryOut = [status |-> "none", vec |-> << >>]

\* storeDocumentChunks up to the construction of upsertData (part_000 281-393)
StoreChunkEmbeddings ==
  /\ nRows = << >>
  /\ nRows' = [k \in 1..nChunkCount |->
                 ProcessEmbedding(FilledEmbeddings(nChunkCount, nEmbIn)[k])]
  /\ UNCHANGED <<nChunkCount, nEmbIn, nQueryIn, nQueryOut>>

\* performVectorSearch up to the first store request (part_000 835-883)
VectorSearchQuery ==
  /\ nQueryOut.status = "none"
  /\ \E q \in InputEmbeddings :
       /\ nQueryIn' = q
       /\ nQueryOut' = ProcessQuery(q)
  /\ UNCHANGED <<nChunkCount, nEmbIn, nRows>>

-----------------------------------------------------------------------------
(* The RAG module state (geminiService.js 13-17) and the persistent tables  *)

\* document ids
Docs == {1, 2}

\* conversations of the user
Convs == {"c1", "c2"}

\* bound on vectorStore.memoryVectors.length for the single-document path
MaxStoreDocs == 2

\* bound on the hits one retrieval step contributes to a query
MaxHits == 1

\* vectorStore = null
NullStore == [exists |-> FALSE, docs |-> << >>]

\* chunk pos of document d is <<d, pos>>; its text has 150, 200 or 250 characters
ChunkLength(c) == 150 + 50 * ((c[1] + 2 * c[2] + 2) % 3)

\* document 3 is a revision of document 1: its chunks open with the same 100
\* characters as the chunks of document 1 and differ after them
RevisedDoc == 3

ChunkText(c) ==
  [k \in 1..ChunkLength(c) |->
     IF c[1] = RevisedDoc /\ k <= 100
       THEN (k + 7 * c[2] + 3) % 26
       ELSE (k + 7 * c[2] + 3 * c[1]) % 26]

\* textSplitter.splitText(document.text) / splitDocuments: the chunks of d
ChunksOf(d) == [i \in 1..docChunkCount[d] |-> <<d, i>>]

\* a chunk as a LangChain document; origin tells which code built its metadata:
\*   "batch"  processDocumentsForRAG (metadata.source = doc.name)
\*   "single" processDocumentForRag  (documentId, title, filename, createdAt)
\*   "db"     getRelevantDocsFromDatabase (source = document_title = title)
MemDoc(c, origin) == [chunk |-> c, origin |-> origin, page |-> 0]

\* page in the metadata of a persisted row, 0 when it has none
RowPage(c) == IF c[2] % 2 = 1 THEN 7 ELSE 0

DbDoc(row) == [chunk |-> row.chunk, origin |-> "db", page |-> RowPage(row.chunk)]

RECURSIVE SeqMapDocs(_, _)
SeqMapDocs(chunks, origin) ==
  IF chunks = << >> THEN << >>
  ELSE <<MemDoc(Head(chunks), origin)>> \o SeqMapDocs(Tail(chunks), origin)

RECURSIVE AllChunks(_)
AllChunks(ids) ==
  IF ids = << >> THEN << >> ELSE ChunksOf(Head(ids)) \o AllChunks(Tail(ids))

\* the record kept of the latest operation
Op(op, outcome) ==
  [op |-> op, outcome |-> outcome, error |-> << >>, llmError |-> "", llmCalled |-> FALSE, docs |-> << >>,
   ids |-> << >>, upsertsOk |-> TRUE, query |-> ""]

\* part_000 398: rows per upsert request
UpsertBatchSize == 100

NumUpsertBatches(n) == (n + UpsertBatchSize - 1) \div UpsertBatchSize

\* a variant whose upsert leaves a row that exists as it is (ignoreDuplicates)
StoreDocumentChunksIgnoreDuplicates(table, documentId, chunks, failed) ==
  IF chunks = << >> THEN table
  ELSE
    LET rows == {[document_id |-> documentId, chunk_index |-> i - 1, chunk |-> chunks[i]]
                   : i \in {j \in 1..Len(chunks) :
                              ((j - 1) \div UpsertBatchSize) + 1 \notin failed}}
        new == {n \in rows : ~\E r \in table :
                  n.document_id = r.document_id /\ n.chunk_index = r.chunk_index}
    IN {r \in table \cup new :
          ~(r.document_id = documentId /\ r.chunk_index >= Len(chunks))}

\* the upserts without the delete of the rows beyond the new chunk count
StoreDocumentChunksNoCleanup(table, documentId, chunks, failed) ==
  IF chunks = << >> THEN table
  ELSE
    LET rows == {[document_id |-> documentId, chunk_index |-> i - 1, chunk |-> chunks[i]]
                   : i \in {j \in 1..Len(chunks) :
                              ((j - 1) \div UpsertBatchSize) + 1 \notin failed}}
        kept == {r \in table : ~\E n \in rows :
                   n.document_id = r.document_id /\ n.chunk_index = r.chunk_index}
    IN kept \cup rows

\* part_000 281-497: the rows are upserted on (document_id, chunk_index) in
\* batches of UpsertBatchSize, the error of a batch (one of `failed`) is only
\* logged, then the rows with chunk_index >= totalAttempted are deleted
StoreDocumentChunksBatches(table, documentId, chunks, failed) ==
  IF chunks = << >> THEN table
  ELSE
    LET rows == {[document_id |-> documentId, chunk_index |-> i - 1, chunk |-> chunks[i]]
                   : i \in {j \in 1..Len(chunks) :
                              ((j - 1) \div UpsertBatchSize) + 1 \notin failed}}
        kept == {r \in table : ~\E n \in rows :
                   n.document_id = r.document_id /\ n.chunk_index = r.chunk_index}
    IN {r \in kept \cup rows :
          ~(r.document_id = documentId /\ r.chunk_index >= Len(chunks))}

\* the same for a call of at most UpsertBatchSize chunks, whose one upsert
\* succeeds or fails
StoreDocumentChunks(table, documentId, chunks, upsertOk) ==
  StoreDocumentChunksBatches(table, documentId, chunks,
                             IF upsertOk THEN {} ELSE 1..NumUpsertBatches(Len(chunks)))

InitRag ==
  /\ geminiApiKey = FALSE
  /\ vectorStore = NullStore
  /\ documentIds = {}
  /\ documents = {}
  /\ dbChunks = {}
  /\ conversations = [c \in Convs |-> {}]
  /\ docChunkCount = [d \in Docs |-> IF d = 1 THEN 2 ELSE 1]
  /\ lastOp = Op("none", "none")

IdleRag ==
  /\ geminiApiKey = FALSE
  /\ vectorStore = NullStore
  /\ documentIds = {}
  /\ documents = {}
  /\ dbChunks = {}
  /\ conversations = [c \in Convs |-> {}]
  /\ docChunkCount = [d \in Docs |-> 1]
  /\ lastOp = Op("none", "none")

\* geminiService.js 799-815
InitializeGemini ==
  /\ \E keyGiven \in BOOLEAN :
       IF keyGiven
         THEN /\ geminiApiKey' = TRUE
              /\ lastOp' = Op("initializeGemini", "true")
         ELSE /\ geminiApiKey' = geminiApiKey
              /\ lastOp' = Op("initializeGemini", "false")
  /\ UNCHANGED <<vectorStore, documentIds, documents, dbChunks, conversations, docChunkCount>>

\* geminiService.js 928-1076
ProcessDocumentForRag ==
  \E d \in Docs, keyPassed \in BOOLEAN, userId \in BOOLEAN,
     embedOk \in BOOLEAN, upsertOk \in BOOLEAN :
    IF ~(keyPassed \/ geminiApiKey)
      THEN /\ lastOp' = Op("processDocumentForRag", "no_api_key")
           /\ UNCHANGED <<geminiApiKey, vectorStore, documentIds, documents,
                          dbChunks, conversations, docChunkCount>>
      ELSE
        \* storeDocument gives the document a new row id when it has no row
        \E id \in (IF userId /\ d \notin documents THEN Docs \ documents ELSE {d}) :
          /\ Len(vectorStore.docs) + docChunkCount[id] <= MaxStoreDocs
          /\ documents' = IF userId THEN documents \cup {id} ELSE documents
          /\ IF embedOk
               THEN /\ vectorStore' = [exists |-> TRUE,
                                       docs |-> vectorStore.docs \o SeqMapDocs(ChunksOf(id), "single")]
                    /\ documentIds' = documentIds \cup {id}
                    /\ dbChunks' = IF userId
                                     THEN StoreDocumentChunks(dbChunks, id, ChunksOf(id), upsertOk)
                                     ELSE dbChunks
                    /\ lastOp' = Op("processDocumentForRag", "true")
               ELSE \* vectorStore.addDocuments rejects: rethrown at 1073
                    /\ vectorStore' = [exists |-> TRUE, docs |-> vectorStore.docs]
                    /\ lastOp' = Op("processDocumentForRag", "error")
                    /\ UNCHANGED <<documentIds, dbChunks>>
          /\ UNCHANGED <<geminiApiKey, conversations, docChunkCount>>

\* const chunkBatchSize = 50 (geminiService.js 284)
ChunkBatchSize == 50

\* sequences of distinct fresh document ids: the rows storeDocument creates
\* for the `documents` argument of processDocumentsForRAG
FreshIdSeqs ==
  {<<a>> : a \in Docs \ documents} \cup
  {s \in (Docs \ documents) \X (Docs \ documents) : s[1] # s[2]}

NumBatches(n) == (n + ChunkBatchSize - 1) \div ChunkBatchSize

\* geminiService.js 286-308: batch b of the chunk list is stored under the
\* document id of its first chunk; failed = batches whose upsert errors
RECURSIVE StoreInBatches(_, _, _, _)
StoreInBatches(table, chunks, b, failed) ==
  IF (b - 1) * ChunkBatchSize >= Len(chunks) THEN table
  ELSE
    LET batchDocs == SubSeq(chunks, (b - 1) * ChunkBatchSize + 1,
                            Min(b * ChunkBatchSize, Len(chunks)))
    IN StoreInBatches(
         StoreDocumentChunks(table, batchDocs[1][1], batchDocs, b \notin failed),
         chunks, b + 1, failed)

\* geminiService.js 188-324
ProcessDocumentsForRAG ==
  \E apiKeyGiven \in BOOLEAN, stage \in {"none", "embedTest", "storeDocument", "vectorStore"} :
    IF ~apiKeyGiven
      THEN /\ lastOp' = Op("processDocumentsForRAG", "false")
           /\ UNCHANGED <<geminiApiKey, vectorStore, documentIds, documents,
                          dbChunks, conversations, docChunkCount>>
      ELSE
        \E ids \in FreshIdSeqs :
          \E failed \in SUBSET (1..NumBatches(Len(AllChunks(ids)))) :
            /\ CASE stage = "embedTest" ->
                      /\ vectorStore' = NullStore
                      /\ lastOp' = [Op("processDocumentsForRAG", "error") EXCEPT !.ids = ids]
                      /\ UNCHANGED <<documents, dbChunks>>
                 [] stage = "storeDocument" ->
                      \* storeDocument throws for the first document
                      /\ vectorStore' = NullStore
                      /\ lastOp' = [Op("processDocumentsForRAG", "error") EXCEPT !.ids = ids]
                      /\ UNCHANGED <<documents, dbChunks>>
                 [] stage = "vectorStore" ->
                      \* MemoryVectorStore.fromDocuments rejects
                      /\ vectorStore' = NullStore
                      /\ documents' = documents \cup {ids[k] : k \in 1..Len(ids)}
                      /\ lastOp' = [Op("processDocumentsForRAG", "error") EXCEPT !.ids = ids]
                      /\ UNCHANGED dbChunks
                 [] OTHER ->
                      /\ vectorStore' = [exists |-> TRUE,
                                         docs |-> SeqMapDocs(AllChunks(ids), "batch")]
                      /\ documents' = documents \cup {ids[k] : k \in 1..Len(ids)}
                      /\ dbChunks' = StoreInBatches(dbChunks, AllChunks(ids), 1, failed)
                      /\ lastOp' = [Op("processDocumentsForRAG", "true") EXCEPT
                                      !.ids = ids, !.upsertsOk = (failed = {})]
            /\ UNCHANGED <<geminiApiKey, documentIds, conversations, docChunkCount>>

\* geminiService.js 1136-1193 with a documentId; searchOk = FALSE covers both
\* a rejected similaritySearch and a client object without an `_apiKey`
ClearRAGSystemDocument ==
  \E documentId \in Docs, searchOk \in BOOLEAN :
    /\ IF ~vectorStore.exists
         THEN /\ lastOp' = Op("clearRAGSystem", "true")
              /\ UNCHANGED <<vectorStore, documentIds>>
         ELSE IF ~geminiApiKey \/ ~searchOk
           THEN /\ lastOp' = Op("clearRAGSystem", "false")
                /\ UNCHANGED <<vectorStore, documentIds>>
           ELSE /\ vectorStore' = [exists |-> TRUE,
                                   docs |-> SelectSeq(vectorStore.docs,
                                                      LAMBDA x : x.chunk[1] # documentId)]
                /\ documentIds' = documentIds \ {documentId}
                /\ lastOp' = Op("clearRAGSystem", "true")
    /\ UNCHANGED <<geminiApiKey, documents, dbChunks, conversations, docChunkCount>>

\* geminiService.js 1136-1193 without a documentId
ClearRAGSystemAll ==
  /\ IF ~vectorStore.exists
       THEN UNCHANGED <<vectorStore, documentIds>>
       ELSE /\ vectorStore' = NullStore
            /\ documentIds' = {}
  /\ lastOp' = Op("clearRAGSystem", "true")
  /\ UNCHANGED <<geminiApiKey, documents, dbChunks, conversations, docChunkCount>>

\* geminiService.js 764-782
CleanRAGSystem ==
  /\ documentIds' = {}
  /\ vectorStore' = NullStore
  /\ lastOp' = Op("cleanRAGSystem", "true")
  /\ UNCHANGED <<geminiApiKey, documents, dbChunks, conversations, docChunkCount>>

\* geminiService.js 88-92
ResetRAGSystem ==
  /\ vectorStore' = NullStore
  /\ lastOp' = Op("resetRAGSystem", "done")
  /\ UNCHANGED <<geminiApiKey, documentIds, documents, dbChunks, conversations, docChunkCount>>

\* geminiService.js 2133-2169
UpdateRagContextForConversation ==
  \E docIds \in SUBSET Docs, sessionOk \in BOOLEAN :
    /\ IF ~geminiApiKey \/ ~sessionOk
         THEN /\ lastOp' = Op("updateRagContextForConversation", "false")
              /\ UNCHANGED documentIds
         ELSE /\ documentIds' = docIds
              /\ lastOp' = Op("updateRagContextForConversation", "true")
    /\ UNCHANGED <<geminiApiKey, vectorStore, documents, dbChunks, conversations, docChunkCount>>

\* retriever k of getRelevantDocsFromMemory (geminiService.js 600)
RetrieverK == 7

\* k of the similaritySearch in executeRagQuery (geminiService.js 1094)
ExecuteK == 5

\* `relevantDocs.length < 3` (geminiService.js 418)
MinMemoryDocs == 3

\* substring(0, 100) of deduplicateDocuments (geminiService.js 750)
ContentIdLength == 100

\* substring(0, 200) of formatContextFromDocs (geminiService.js 1948)
CitationExcerptLength == 200

Substring(text, n) == SubSeq(text, 1, Min(n, Len(text)))

\* geminiService.js 745-758
\* a fingerprint that is the whole content
ContentIdFullText(doc) == ChunkText(doc.chunk)

\* const contentId = doc.pageContent.substring(0, 100)
ContentId(doc) == Substring(ChunkText(doc.chunk), ContentIdLength)

RECURSIVE DedupFrom(_, _)
DedupFrom(docs, seen) ==
  IF docs = << >> THEN << >>
  ELSE LET contentId == ContentId(Head(docs))
       IN IF contentId \in seen
            THEN DedupFrom(Tail(docs), seen)
            ELSE <<Head(docs)>> \o DedupFrom(Tail(docs), seen \cup {contentId})

deduplicateDocuments(docs) == DedupFrom(docs, {})

\* the user queries explored
Queries == {"q1", "q2"}

\* similarity of a chunk's embedding to the embedding of a query (the
\* vectors themselves are not modelled): q1 ranks chunk <<1, 1>> first and
\* ties the others, q2 ranks <<2, 1>> first
Similarity(q, c) ==
  IF q = "q1" THEN 1 + ((c[1] + c[2]) % 3) ELSE 1 + ((2 * c[1] + c[2]) % 3)

\* the rankings a similarity search for q over the store's entries can
\* return: the k nearest entries, nearest first, ties in any order
Rankings(q, k) ==
  LET n == Len(vectorStore.docs)
      score(i) == Similarity(q, vectorStore.docs[i].chunk)
  IN {f \in [1..Min(n, k) -> 1..n] :
        /\ \A i, j \in 1..Min(n, k) : i # j => f[i] # f[j]
        /\ \A i, j \in 1..Min(n, k) : i < j => score(f[i]) >= score(f[j])
        /\ \A i \in 1..Min(n, k) :
             \A m \in 1..n : (\A j \in 1..Min(n, k) : f[j] # m) => score(f[i]) >= score(m)}

\* the hit lists the persistent search can return: distinct rows, at most MaxHits
DbHitLists ==
  {f \in UNION {[1..m -> dbChunks] : m \in 0..MaxHits} :
     \A i, j \in DOMAIN f : i # j => f[i] # f[j]}

\* doc.name / documents.title of a document
DocName(d) == IF d = 1 THEN "a.pdf" ELSE "b.pdf"

\* doc.metadata?.source || doc.metadata?.document_title || 'Unknown Source'
Source(doc) ==
  CASE doc.origin = "batch" -> DocName(doc.chunk[1])
    [] doc.origin = "db" -> DocName(doc.chunk[1])
    [] OTHER -> "Unknown Source"

\* a formatter whose excerpt is cut at the deduplication length instead
formatContextFromDocsShortExcerpt(docs) ==
  [blocks |-> [i \in 1..Len(docs) |->
                 [number |-> i, source |-> Source(docs[i]), page |-> docs[i].page,
                  body |-> ChunkText(docs[i].chunk)]],
   citations |-> [i \in 1..Len(docs) |->
                 [source |-> Source(docs[i]), page |-> docs[i].page,
                  text |-> Substring(ChunkText(docs[i].chunk), ContentIdLength)]]]

\* geminiService.js 1932-1957: block i is "--- Dokumen #i: source (halaman
\* page) ---" followed by the chunk text; page 0 stands for no page
formatContextFromDocs(docs) ==
  [blocks |-> [i \in 1..Len(docs) |->
                 [number |-> i, source |-> Source(docs[i]), page |-> docs[i].page,
                  body |-> ChunkText(docs[i].chunk)]],
   citations |-> [i \in 1..Len(docs) |->
                 [source |-> Source(docs[i]), page |-> docs[i].page,
                  text |-> Substring(ChunkText(docs[i].chunk), CitationExcerptLength)]]]

\* the query pipeline without the check of an empty result list
QueryOutcomeNoEmptyCheck(storeExists, relevantDocs, llmOk) ==
  IF ~storeExists THEN [outcome |-> "no_documents", llmCalled |-> FALSE]
  ELSE [outcome |-> IF llmOk THEN "answer" ELSE "error", llmCalled |-> TRUE]

\* geminiService.js 392-394, 434-436, 478-516: how queryWithRAG ends
QueryOutcome(storeExists, relevantDocs, llmOk) ==
  IF ~storeExists THEN [outcome |-> "no_documents", llmCalled |-> FALSE]
  ELSE IF Len(relevantDocs) = 0 THEN [outcome |-> "no_relevant", llmCalled |-> FALSE]
  ELSE [outcome |-> IF llmOk THEN "answer" ELSE "error", llmCalled |-> TRUE]

\* geminiService.js 593-645: what getRelevantDocsFromMemory can return: the
\* empty list (every search failed, or the store is empty), or the k nearest
\* entries, deduplicated
MemoryResults(q) ==
  {<< >>} \cup
  {deduplicateDocuments([i \in DOMAIN ranking |-> vectorStore.docs[ranking[i]]])
     : ranking \in Rankings(q, RetrieverK)}

\* geminiService.js 418-432: the lists left after the supplement from the
\* persistent store: untouched when it is skipped or throws, otherwise the
\* deduplicated concatenation
Supplemented(memDocs) ==
  IF Len(memDocs) >= MinMemoryDocs THEN {memDocs}
  ELSE {memDocs} \cup
       {deduplicateDocuments(memDocs \o [i \in DOMAIN hits |-> DbDoc(hits[i])])
          : hits \in DbHitLists}

\* queries counted between two resets of the counters
MaxTrackedQueries == 2

\* geminiService.js 58-69: the counters, as the module creates them
NoMetrics == [queries |-> 0, successfulQueries |-> 0, failedQueries |-> 0]

\* a variant that counts a failed query only in `queries`
trackQueryPerformanceSuccessOnly(metrics, success) ==
  [metrics EXCEPT !.queries = @ + 1,
                  !.successfulQueries = IF success THEN @ + 1 ELSE @]

\* geminiService.js 109-120: the counters after one more query
trackQueryPerformance(metrics, success) ==
  [metrics EXCEPT !.queries = @ + 1,
                  !.successfulQueries = IF success THEN @ + 1 ELSE @,
                  !.failedQueries = IF success THEN @ ELSE @ + 1]

\* messages are sequences of the strings they are concatenated from
NoDocumentsMessage == <<"Tidak ada dokumen yang diproses.">>

NoRelevantMessage == <<"Tidak dapat menemukan informasi yang relevan.">>

\* the messages of the errors the model call rejects with; "" is an error
\* without a message
LlmErrorMessages == {"quota exceeded", ""}

\* geminiService.js 2070-2090: generateResponseFromGemini rethrows
GenerateResponseError(message) ==
  <<"Failed to generate response: ", IF message = "" THEN "Unknown error" ELSE message>>

\* geminiService.js 513-516: the catch of queryWithRAG rethrows
QueryError(inner) == <<"Failed to query: ">> \o inner

\* String.prototype.includes on such a message, for one of its parts
Includes(message, part) == part = "" \/ \E i \in DOMAIN message : message[i] = part

\* geminiService.js 363-521
QueryWithRAG ==
  /\ ragPerformanceMetrics.queries < MaxTrackedQueries
  /\ IF ~vectorStore.exists
       THEN lastOp' = [Op("queryWithRAG", QueryOutcome(FALSE, << >>, FALSE).outcome) EXCEPT
                         !.error = QueryError(NoDocumentsMessage)]
       ELSE \E query \in Queries :
              \E memDocs \in MemoryResults(query) :
                \E relevantDocs \in Supplemented(memDocs) :
                  \E llmOk \in (IF relevantDocs = << >> THEN {FALSE} ELSE BOOLEAN) :
                    \E llmError \in (IF llmOk \/ relevantDocs = << >>
                                       THEN {""} ELSE LlmErrorMessages) :
                      LET end == QueryOutcome(TRUE, relevantDocs, llmOk)
                      IN lastOp' = [Op("queryWithRAG", end.outcome) EXCEPT
                                      !.llmCalled = end.llmCalled,
                                      !.docs = relevantDocs,
                                      !.query = query,
                                      !.llmError = llmError,
                                      !.error =
                                        CASE end.outcome = "answer" -> << >>
                                          [] end.outcome = "no_relevant" ->
                                               QueryError(NoRelevantMessage)
                                          [] OTHER ->
                                               QueryError(GenerateResponseError(llmError))]
  \* the finally block: trackQueryPerformance(query, responseTime, success, ...)
  /\ ragPerformanceMetrics' =
       trackQueryPerformance(ragPerformanceMetrics, lastOp'.outcome = "answer")
  /\ UNCHANGED <<geminiApiKey, vectorStore, documentIds, documents,
                 dbChunks, conversations, docChunkCount>>

\* geminiService.js 74-83
ResetPerformanceMetrics ==
  /\ ragPerformanceMetrics # NoMetrics
  /\ ragPerformanceMetrics' = NoMetrics

\* the counters of a module that was just loaded
IdleMetrics == ragPerformanceMetrics = NoMetrics

\* geminiService.js 1083-1129
ExecuteRagQuery ==
  /\ IF ~geminiApiKey THEN lastOp' = Op("executeRagQuery", "not_initialized")
     ELSE IF ~vectorStore.exists \/ documentIds = {}
       THEN lastOp' = Op("executeRagQuery", "no_documents")
     ELSE \/ lastOp' = Op("executeRagQuery", "error")   \* similaritySearch rejects
          \/ \E query \in Queries, llmOk \in BOOLEAN :
               \E ranking \in Rankings(query, ExecuteK) :
                 lastOp' = [Op("executeRagQuery", IF llmOk THEN "answer" ELSE "error") EXCEPT
                              !.llmCalled = TRUE,
                              !.docs = [i \in DOMAIN ranking |-> vectorStore.docs[ranking[i]]],
                              !.query = query]
  /\ UNCHANGED <<geminiApiKey, vectorStore, documentIds, documents,
                 dbChunks, conversations, docChunkCount>>

\* the rows a correct ingestion of document d leaves in document_chunks
RowsOf(d) ==
  {[document_id |-> d, chunk_index |-> i - 1, chunk |-> <<d, i>>] : i \in 1..docChunkCount[d]}

\* part_000 666-745, with the un-awaited clearRAGSystem(documentId) of 733
DeleteDocument ==
  \E documentId \in Docs, loggedIn \in BOOLEAN, lookupOk \in BOOLEAN,
     failedUpdates \in SUBSET Convs, stage \in {"none", "chunks", "document"},
     searchOk \in BOOLEAN :
    IF ~loggedIn \/ documentId \notin documents
      THEN /\ lastOp' = [Op("deleteDocument", "error") EXCEPT !.ids = <<documentId>>]
           /\ UNCHANGED <<geminiApiKey, vectorStore, documentIds, documents,
                          dbChunks, conversations, docChunkCount>>
      ELSE
        /\ conversations' =
             [c \in Convs |->
                IF lookupOk /\ documentId \in conversations[c] /\ c \notin failedUpdates
                  THEN conversations[c] \ {documentId}
                  ELSE conversations[c]]
        /\ dbChunks' = IF stage = "chunks" THEN dbChunks
                       ELSE {r \in dbChunks : r.document_id # documentId}
        /\ documents' = IF stage = "none" THEN documents \ {documentId} ELSE documents
        /\ IF stage = "none" /\ vectorStore.exists /\ geminiApiKey /\ searchOk
             THEN /\ vectorStore' = [exists |-> TRUE,
                                     docs |-> SelectSeq(vectorStore.docs,
                                                        LAMBDA x : x.chunk[1] # documentId)]
                  /\ documentIds' = documentIds \ {documentId}
             ELSE UNCHANGED <<vectorStore, documentIds>>
        /\ lastOp' = [Op("deleteDocument", IF stage = "none" THEN "success" ELSE "error")
                        EXCEPT !.ids = <<documentId>>]
        /\ UNCHANGED <<geminiApiKey, docChunkCount>>

\* numbers of chunks explored for the ingestion of a document
ChunkCounts == {1, 2, ChunkBatchSize + 1}

\* a new session in which nothing has been ingested; the documents to come
\* split into ChunkCounts chunks
InitIngest ==
  /\ geminiApiKey = FALSE
  /\ vectorStore = NullStore
  /\ documentIds = {}
  /\ documents = {}
  /\ dbChunks = {}
  /\ conversations = [c \in Convs |-> {}]
  /\ docChunkCount \in [Docs -> ChunkCounts]
  /\ lastOp = Op("none", "none")

\* both documents are stored with their chunks and referenced by any of the
\* conversations; the session has them loaded in memory, or is a new one
InitDelete ==
  /\ geminiApiKey \in BOOLEAN
  /\ docChunkCount = [d \in Docs |-> 1]
  /\ vectorStore \in {NullStore,
                      [exists |-> TRUE, docs |-> SeqMapDocs(AllChunks(<<1, 2>>), "single")]}
  /\ documentIds = (IF vectorStore.exists THEN Docs ELSE {})
  /\ vectorStore.exists => geminiApiKey
  /\ documents = Docs
  /\ dbChunks = UNION {RowsOf(d) : d \in Docs}
  /\ conversations \in [Convs -> SUBSET Docs]
  /\ lastOp = Op("none", "none")

-----------------------------------------------------------------------------
(* deduplicateDocuments as a function of its argument (geminiService.js 745-758) *)

\* bound on docs.length
MaxDedupLen == 3

\* the documents a list may hold: chunks from memory and from the persistent
\* store (the same chunk can come from both), and a chunk of the revision
DedupInputs ==
  {MemDoc(<<1, 1>>, "single"), MemDoc(<<1, 2>>, "single"), MemDoc(<<2, 1>>, "batch"),
   [chunk |-> <<1, 1>>, origin |-> "db", page |-> 7],
   [chunk |-> <<RevisedDoc, 1>>, origin |-> "db", page |-> 0]}

InitDedup ==
  /\ dIn \in UNION {[1..n -> DedupInputs] : n \in 0..MaxDedupLen}
  /\ dOut = << >>
  /\ dDone = FALSE

IdleDedup ==
  /\ dIn = << >>
  /\ dOut = << >>
  /\ dDone = TRUE

\* geminiService.js 745-758
DeduplicateCall ==
  /\ ~dDone
  /\ dOut' = deduplicateDocuments(dIn)
  /\ dDone' = TRUE
  /\ UNCHANGED dIn

-----------------------------------------------------------------------------
(* The upload limit: pdfService.js processPdfFiles and the hook useRagSystem
   of useChatSystem.js (a signed-in user, so that documents are persisted) *)

\* useChatSystem.js 900: the literal 15 of the upload check
MaxDocuments == 15

\* pdfService.js 156: the default of the parameter maxFiles
maxFiles == 15

\* rows of table documents the model follows
MaxStoredRows == 20

\* numbers of files handed to one call
FileCounts == {1, 7, 8, 15, 16}

NoUpload == [active |-> FALSE, files |-> 0, next |-> 0, processed |-> 0]

\* what becomes of one file of an upload (useChatSystem.js 918-948): its text
\* is empty, saveDocument throws, processDocumentForRag throws after
\* saveDocument stored the row, or both succeed
FileOutcomes == {"empty", "saveFails", "ragFails", "ok"}

\* rows one file adds to table documents: saveDocument inserts one row under
\* an id of the database (documentService 111-133, 246-250), and
\* processDocumentForRag, looking the document up under the uuid of the hook,
\* finds none and inserts a second (geminiService.js 949-972)
RowsAdded(outcome) ==
  CASE outcome = "empty" -> 0
    [] outcome = "saveFails" -> 0
    [] outcome = "ragFails" -> 1
    [] outcome = "ok" -> 2

InitUpload ==
  /\ uDocuments = 0
  /\ uStored = 0
  /\ uUpload = NoUpload
  /\ uLast = [op |-> "none", count |-> 0]

IdleUpload ==
  /\ uDocuments = 0
  /\ uStored = 0
  /\ uUpload = NoUpload
  /\ uLast = [op |-> "idle", count |-> 0]

\* pdfService.js 156-199: the first maxFiles files are processed, a file that
\* throws is skipped; the result holds one entry per file that was read
ProcessPdfFiles ==
  \E n \in FileCounts, unreadable \in 0..1 :
    /\ uLast' = [op |-> "processPdfFiles",
                 count |-> Min(n, maxFiles) - Min(unreadable, Min(n, maxFiles))]
    /\ UNCHANGED <<uDocuments, uStored, uUpload>>

\* useChatSystem.js 891-903: the check of processPdfForRag against the
\* `documents` of the render the callback closed over; the upload form is
\* disabled while a call is in flight (Chatbot.jsx, PdfUploadForm.jsx)
ProcessPdfForRagBegin ==
  \E n \in FileCounts :
    /\ ~uUpload.active
    /\ IF uDocuments + n > MaxDocuments
         THEN /\ uLast' = [op |-> "refused", count |-> n]
              /\ UNCHANGED <<uDocuments, uStored, uUpload>>
         ELSE /\ uUpload' = [active |-> TRUE, files |-> n, next |-> 1, processed |-> 0]
              /\ uLast' = [op |-> "accepted", count |-> n]
              /\ UNCHANGED <<uDocuments, uStored>>

\* useChatSystem.js 917-948: one turn of the loop over the files
ProcessPdfForRagFile ==
  \E outcome \in FileOutcomes :
    /\ uUpload.active
    /\ uUpload.next <= uUpload.files
    /\ uStored + RowsAdded(outcome) <= MaxStoredRows
    /\ uStored' = uStored + RowsAdded(outcome)
    /\ uUpload' = [uUpload EXCEPT !.next = @ + 1,
                                  !.processed = IF outcome = "ok" THEN @ + 1 ELSE @]
    /\ UNCHANGED <<uDocuments, uLast>>

\* useChatSystem.js 950-990: setDocuments(prev => [...prev, ...processedDocs])
\* when a file was processed, the error path otherwise
ProcessPdfForRagEnd ==
  /\ uUpload.active
  /\ uUpload.next > uUpload.files
  /\ uDocuments' = uDocuments + uUpload.processed
  /\ uUpload' = NoUpload
  /\ uLast' = [op |-> IF uUpload.processed > 0 THEN "uploaded" ELSE "failed",
               count |-> uUpload.processed]
  /\ UNCHANGED uStored

\* useChatSystem.js 828-862: setDocuments(await getDocuments(userId)); called
\* by initializeSystem (878) and by the effect on [initialized, userId] (1150)
LoadDocuments ==
  /\ uDocuments' = uStored
  /\ uLast' = [op |-> "loadDocuments", count |-> uStored]
  /\ UNCHANGED <<uStored, uUpload>>

\* useChatSystem.js 1062-1090: the row is deleted and the entry filtered out
RemoveDocument ==
  /\ uDocuments > 0
  /\ uDocuments' = uDocuments - 1
  /\ uStored' = Max(uStored - 1, 0)
  /\ uLast' = [op |-> "removeDocument", count |-> 1]
  /\ UNCHANGED uUpload

-----------------------------------------------------------------------------
(* The persistent search: documentService performVectorSearch and
   performTextSearch, geminiService.js getRelevantDocsFromDatabase *)

\* rows of document_chunks the searching user owns
MaxSearchRows == 3

SearchRows == 1..MaxSearchRows

\* 100 * (1 - cosine distance) between the query vector and the row's vector
VectorSimilarity(row) == CASE row = 1 -> 90 [] row = 2 -> 70 [] OTHER -> 40

\* 100 * match_threshold (part_000 881) and the 0.5 of the direct query (930)
MatchThreshold == 50

\* 100 * the step of the scores of the text search (part_000 1047)
TextScoreStep == 5

\* the limits the callers pass: the default of performVectorSearch is 5,
\* getRelevantDocsFromDatabase passes options.limit || 10
SearchLimits == {1, 5}

\* the elements of a set of rows in increasing order
RECURSIVE Ascending(_)
Ascending(S) ==
  IF S = {} THEN << >>
  ELSE LET least == CHOOSE x \in S : \A y \in S : x <= y
       IN <<least>> \o Ascending(S \ {least})

\* the elements of a set of rows, most similar first
RECURSIVE BySimilarity(_)
BySimilarity(S) ==
  IF S = {} THEN << >>
  ELSE LET best == CHOOSE x \in S : \A y \in S : VectorSimilarity(x) >= VectorSimilarity(y)
       IN <<best>> \o BySimilarity(S \ {best})

\* match_documents and the direct query: rows above the threshold, most
\* similar first, at most `limit`; the score is computed from the distance
VectorMatches(table, limit) ==
  LET hits == BySimilarity({r \in table : VectorSimilarity(r) > MatchThreshold})
  IN [i \in 1..Min(limit, Len(hits)) |->
        [row |-> hits[i], similarity |-> VectorSimilarity(hits[i]), from |-> "distance"]]

\* the questions explored, by the rows whose content holds one of their
\* keywords, and the rows that belong to the active documents
UserWords == {{}, {2}, SearchRows}

ActiveRows == {{1}, SearchRows}

\* part_000 953: the text handed to performTextSearch is
\* queryEmbedding.join(' ').substring(0, 100), the digits of the first
\* components; no document ids are passed on the way from queryWithRAG
\* (geminiService.js 421, 699), so the filter of 1000-1002 is not applied.
\* query.keywords tells whether that text yields a keyword, query.matching
\* the rows whose content holds one of them
\* part_000 964-1056: performTextSearch
performTextSearch(env, table, query, limit) ==
  IF ~env.loggedIn THEN << >>
  ELSE IF ~query.keywords THEN << >>
  ELSE IF env.text = "error" THEN << >>
  ELSE LET data == Ascending(table \cap query.matching)
       IN [i \in 1..Min(limit, Len(data)) |->
             [row |-> data[i],
              similarity |-> MatchThreshold - (i - 1) * TextScoreStep,
              from |-> "position"]]

\* part_000 834-955: performVectorSearch
performVectorSearch(env, table, query, limit) ==
  IF ~env.loggedIn THEN [status |-> "threw", rows |-> << >>]
  ELSE IF ~query.valid THEN [status |-> "threw", rows |-> << >>]
  ELSE IF env.rpc = "ok" THEN [status |-> "returned", rows |-> VectorMatches(table, limit)]
  ELSE IF env.sql = "ok" THEN [status |-> "returned", rows |-> VectorMatches(table, limit)]
  ELSE [status |-> "returned", rows |-> performTextSearch(env, table, query, limit)]

\* part_000 877-955: the strategies performVectorSearch attempts, in order
StrategiesTried(env, query) ==
  IF ~env.loggedIn \/ ~query.valid THEN << >>
  ELSE IF env.rpc = "ok" THEN <<"rpc">>
  ELSE IF env.sql = "ok" THEN <<"rpc", "sql">>
  ELSE <<"rpc", "sql", "text">>

\* geminiService.js 655-740, for a query whose embedding was generated:
\* the rows of performVectorSearch with score = result.similarity, and the
\* empty list for whatever is thrown
getRelevantDocsFromDatabase(env, table, query, limit) ==
  LET results == performVectorSearch(env, table, query, limit)
  IN IF results.status = "threw" THEN [status |-> "returned", rows |-> << >>]
     ELSE [status |-> "returned", rows |-> results.rows]

NoSearch == [status |-> "none", rows |-> << >>]

InitSearch ==
  /\ sEnv \in [loggedIn : BOOLEAN, rpc : {"ok", "error"}, sql : {"ok", "error"},
               text : {"ok", "error"}]
  /\ sTable \in SUBSET SearchRows
  /\ sQuery \in [valid : BOOLEAN, keywords : BOOLEAN, matching : SUBSET SearchRows,
                 limit : SearchLimits]
  /\ sUser \in [words : UserWords, active : ActiveRows]
  /\ sVector = NoSearch
  /\ sDatabase = NoSearch

IdleSearch ==
  /\ sEnv = [loggedIn |-> FALSE, rpc |-> "ok", sql |-> "ok", text |-> "ok"]
  /\ sTable = {}
  /\ sQuery = [valid |-> FALSE, keywords |-> FALSE, matching |-> {}, limit |-> 1]
  /\ sUser = [words |-> {}, active |-> {1}]
  /\ sVector = NoSearch
  /\ sDatabase = NoSearch

\* part_000 834-955
PerformVectorSearchCall ==
  /\ sVector = NoSearch
  /\ sVector' = performVectorSearch(sEnv, sTable, sQuery, sQuery.limit)
  /\ UNCHANGED <<sEnv, sTable, sQuery, sUser, sDatabase>>

\* geminiService.js 655-740
GetRelevantDocsFromDatabaseCall ==
  /\ sDatabase = NoSearch
  /\ sDatabase' = getRelevantDocsFromDatabase(sEnv, sTable, sQuery, sQuery.limit)
  /\ UNCHANGED <<sEnv, sTable, sQuery, sUser, sVector>>

-----------------------------------------------------------------------------
(* storeDocumentChunks called repeatedly with the same arguments
   (documentService 280-497) *)

\* calls of storeDocumentChunks followed
MaxStoreCalls == 3

\* the document the calls store
StoredDoc == 1

\* numbers of chunks of that document: one upsert batch, two, three
StoreChunkCounts == {1, 2, UpsertBatchSize + 1, 2 * UpsertBatchSize + 1}

\* the argument `chunks` for a document of n chunks
ChunkList(n) == [i \in 1..n |-> <<StoredDoc, i>>]

\* the rows an earlier version of the document left: one more than the new
\* version has, each with other content
StaleRows(n) ==
  {[document_id |-> StoredDoc, chunk_index |-> i, chunk |-> <<RevisedDoc, i + 1>>]
     : i \in 0..n}

\* the rows of another document
OtherRows == {[document_id |-> 2, chunk_index |-> 0, chunk |-> <<2, 1>>]}

\* the complete chunk set: one row per chunk index, with the chunk's content
CompleteRows(n) ==
  {[document_id |-> StoredDoc, chunk_index |-> i - 1, chunk |-> <<StoredDoc, i>>]
     : i \in 1..n}

InitStore ==
  /\ tChunkCount \in StoreChunkCounts
  /\ tTable \in {{}, OtherRows, StaleRows(tChunkCount) \cup OtherRows}
  /\ tCalls = 0
  /\ tLast = [status |-> "none", failed |-> {}]
  /\ tStoredOnce = FALSE
  /\ tBefore = {}

IdleStore ==
  /\ tChunkCount = 0
  /\ tTable = {}
  /\ tCalls = 0
  /\ tLast = [status |-> "idle", failed |-> {}]
  /\ tStoredOnce = FALSE
  /\ tBefore = {}

\* part_000 280-497: one call storeDocumentChunks(StoredDoc, chunks,
\* embeddings); failed = the upsert batches that end in an error
StoreDocumentChunksCall ==
  /\ tCalls < MaxStoreCalls
  /\ \E loggedIn \in BOOLEAN, failed \in SUBSET (1..NumUpsertBatches(tChunkCount)) :
       IF ~loggedIn
         THEN /\ failed = {}
              /\ tLast' = [status |-> "threw", failed |-> {}]
              /\ UNCHANGED <<tTable, tStoredOnce>>
         ELSE /\ tTable' = StoreDocumentChunksBatches(tTable, StoredDoc,
                                                      ChunkList(tChunkCount), failed)
              /\ tLast' = [status |-> "returned", failed |-> failed]
              /\ tStoredOnce' = (tStoredOnce \/ failed = {})
  /\ tCalls' = tCalls + 1
  /\ tBefore' = tTable
  /\ UNCHANGED tChunkCount

-----------------------------------------------------------------------------
(* getRelevantDocsFromMemory (geminiService.js 593-645) *)

\* bound on the entries of the in-memory store
MaxMemEntries == 5

\* bound on queryVariations.length; generateQueryVariations (526-585) returns
\* at least the three variations of lines 527-531
MaxVariations == 4

MinVariations == 3

\* `allRelevantDocs.length >= 5` (geminiService.js 618)
MemoryTarget == 5

\* k of the maximalMarginalRelevance fallback (geminiService.js 633)
MmrK == 5

\* the chunks a store can hold, in insertion order; the chunks of RevisedDoc
\* open with the same 100 characters as those of document 1
MemoryChunks == << <<1, 1>>, <<RevisedDoc, 1>>, <<1, 2>>, <<RevisedDoc, 2>>, <<2, 1>>, <<2, 2>>, <<2, 3>> >>

RECURSIVE SubSeqOn(_, _, _)
SubSeqOn(seq, S, i) ==
  IF i > Len(seq) THEN << >>
  ELSE (IF i \in S THEN <<seq[i]>> ELSE << >>) \o SubSeqOn(seq, S, i + 1)

MemoryStores ==
  {SubSeqOn(MemoryChunks, S, 1) :
     S \in {T \in SUBSET DOMAIN MemoryChunks : Cardinality(T) <= MaxMemEntries}}

\* retriever.getRelevantDocuments(variation): the k nearest entries; which
\* entry is nearest depends on the variation (entry v first for variation v)
Rotate(seq, v) ==
  IF seq = << >> THEN << >>
  ELSE [i \in 1..Len(seq) |-> seq[((i + v - 2) % Len(seq)) + 1]]

GetRelevantDocuments(store, v, k) ==
  LET ranked == Rotate(store, v)
  IN [i \in 1..Min(k, Len(ranked)) |-> MemDoc(ranked[i], "single")]

\* the loop's test with the unique results counted instead of all of them
ReachedTargetUnique(all) == Len(deduplicateDocuments(all)) >= MemoryTarget

\* geminiService.js 618
ReachedTarget(all) == Len(all) >= MemoryTarget

InitMemory ==
  /\ mNull \in BOOLEAN
  /\ mStore \in MemoryStores
  /\ mNull => mStore = << >>
  /\ mVariations \in MinVariations..MaxVariations
  /\ mTried = 0
  /\ mAll = << >>
  /\ mBreak = FALSE
  /\ mStatus = "loop"
  /\ mOut = << >>

IdleMemory ==
  /\ mNull = TRUE
  /\ mStore = << >>
  /\ mVariations = MinVariations
  /\ mTried = 0
  /\ mAll = << >>
  /\ mBreak = FALSE
  /\ mStatus = "idle"
  /\ mOut = << >>

\* geminiService.js 605-625: one iteration of `for (const variation of
\* queryVariations)`; the search either throws (caught, 622-624) or answers
TryVariation ==
  /\ mStatus = "loop" /\ ~mNull /\ ~mBreak
  /\ mTried < mVariations
  /\ mTried' = mTried + 1
  /\ \E throws \in BOOLEAN :
       LET relevantDocs == GetRelevantDocuments(mStore, mTried + 1, RetrieverK)
       IN IF throws \/ Len(relevantDocs) = 0
            THEN UNCHANGED <<mAll, mBreak>>
            ELSE /\ mAll' = mAll \o relevantDocs
                 /\ mBreak' = ReachedTarget(mAll')
  /\ UNCHANGED <<mNull, mStore, mVariations, mStatus, mOut>>

\* geminiService.js 594 and 627-644: the early return for a null store, or
\* the end of the loop, the MMR fallback and the deduplication
GetRelevantDocsFromMemoryReturn ==
  /\ mStatus = "loop"
  /\ mNull \/ mBreak \/ mTried = mVariations
  /\ \E throws \in BOOLEAN :
       LET mmrResults == IF throws \/ mNull THEN << >>
                         ELSE GetRelevantDocuments(mStore, 1, MmrK)
           all == IF Len(mAll) = 0 THEN mAll \o mmrResults ELSE mAll
       IN /\ (Len(mAll) # 0 \/ mNull) => ~throws
          /\ mOut' = deduplicateDocuments(all)
  /\ mStatus' = "returned"
  /\ UNCHANGED <<mNull, mStore, mVariations, mTried, mAll, mBreak>>

-----------------------------------------------------------------------------
(* The retrieval stage of queryWithRAG (geminiService.js 404-436) with
   getRelevantDocsFromDatabase (655-740) and fallbackNonVectorSearch
   (1509-1602) *)

\* bound on the length of the list getRelevantDocsFromMemory returns
MaxMemoryDocs == 4

\* texts: a query as typed, or one of its variations
Text(query, form) == [base |-> query, form |-> form]

NoText == [base |-> "", form |-> "none"]

\* geminiService.js 526-531: the variations every query has; the first is
\* the query itself
generateQueryVariations(query) ==
  <<Text(query, "raw"), Text(query, "quoted"), Text(query, "formula")>>

\* the deduplicated lists the in-memory search returns
MemoryPool == << <<1, 1>>, <<1, 2>>, <<2, 1>>, <<2, 2>>, <<2, 3>> >>

MemoryLists ==
  {[i \in 1..n |-> MemDoc(MemoryPool[i], "single")] : n \in 0..MaxMemoryDocs}

\* rows the persistent store can answer with: a revised copy of a chunk held
\* in memory, the same chunk, and a chunk memory does not hold
DatabaseRows == << <<RevisedDoc, 1>>, <<2, 1>>, <<1, 3>> >>

DatabaseAnswers ==
  {SubSeqOn(DatabaseRows, S, 1) : S \in SUBSET DOMAIN DatabaseRows}

\* in-memory lexical matches of fallbackNonVectorSearch (1566-1594)
LexicalAnswers == {<< >>, <<MemDoc(<<1, 1>>, "single")>>}

Environments ==
  [apiKey : BOOLEAN, embeddings : BOOLEAN, embedOk : BOOLEAN, active : BOOLEAN,
   rows : DatabaseAnswers, lexical : LexicalAnswers]

\* geminiService.js 1509-1602: keyword search over the chunks of the active
\* documents, then lexical matching in memory; nothing without active documents
fallbackNonVectorSearch(text, env) ==
  IF ~env.active
    THEN [mode |-> "none", embedded |-> NoText, keywordsOf |-> NoText, docs |-> << >>]
    ELSE [mode |-> "keyword", embedded |-> NoText, keywordsOf |-> text,
          docs |-> IF env.rows # << >>
                     THEN [i \in DOMAIN env.rows |-> MemDoc(env.rows[i], "fallback")]
                     ELSE env.lexical]

\* geminiService.js 655-740: the query is embedded with a fresh model when an
\* API key is passed (661-678), else with the module's model (685-688); when
\* no embedding is obtained the keyword fallback answers (679-695)
DatabaseRetrieval(text, env) ==
  IF (env.apiKey \/ env.embeddings) /\ env.embedOk
    THEN [mode |-> "vector", embedded |-> text, keywordsOf |-> NoText,
          docs |-> [i \in DOMAIN env.rows |-> DbDoc([chunk |-> env.rows[i]])]]
    ELSE fallbackNonVectorSearch(text, env)

\* the merge without the second deduplication
SupplementNoDedup(relevantDocs, dbDocs) ==
  IF Len(relevantDocs) < MinMemoryDocs THEN relevantDocs \o dbDocs ELSE relevantDocs

\* geminiService.js 418-432
SupplementFromDatabase(relevantDocs, dbDocs) ==
  IF Len(relevantDocs) < MinMemoryDocs
    THEN deduplicateDocuments(relevantDocs \o dbDocs)
    ELSE relevantDocs

NoStage ==
  [called |-> FALSE, given |-> NoText, mode |-> "none", embedded |-> NoText,
   keywordsOf |-> NoText, memory |-> << >>, dbDocs |-> << >>, docs |-> << >>]

InitSupplement ==
  /\ qQuery \in Queries
  /\ qMem \in [threw : BOOLEAN, docs : MemoryLists]
  /\ qMem.threw => qMem.docs = << >>
  /\ qEnv \in Environments
  /\ qOut = NoStage
  /\ qStatus = "start"

IdleSupplement ==
  /\ qQuery = "q1"
  /\ qMem = [threw |-> FALSE, docs |-> << >>]
  /\ qEnv = [apiKey |-> FALSE, embeddings |-> FALSE, embedOk |-> FALSE, active |-> FALSE,
             rows |-> << >>, lexical |-> << >>]
  /\ qOut = NoStage
  /\ qStatus = "idle"

\* geminiService.js 404-432: the variations are generated and handed to the
\* in-memory search; `relevantDocs` stays [] when that search throws
\* (409-415); getRelevantDocsFromDatabase(query, apiKey) is called when
\* fewer than 3 documents came back
QueryWithRAGRetrieval ==
  /\ qStatus = "start"
  /\ LET relevantDocs == IF qMem.threw THEN << >> ELSE qMem.docs
         called == Len(relevantDocs) < MinMemoryDocs
         given == Text(qQuery, "raw")
         db == DatabaseRetrieval(given, qEnv)
     IN qOut' = IF called
                  THEN [called |-> TRUE, given |-> given, mode |-> db.mode,
                        embedded |-> db.embedded, keywordsOf |-> db.keywordsOf,
                        memory |-> relevantDocs, dbDocs |-> db.docs,
                        docs |-> SupplementFromDatabase(relevantDocs, db.docs)]
                  ELSE [NoStage EXCEPT !.memory = relevantDocs,
                                       !.docs = SupplementFromDatabase(relevantDocs, << >>)]
  /\ qStatus' = "done"
  /\ UNCHANGED <<qQuery, qMem, qEnv>>

-----------------------------------------------------------------------------
(* ensureReferences (geminiService.js 2098-2123) *)

\* bound on citations.length
MaxCitations == 3

\* a response: the empty string, or a text followed by the reference
\* sections it holds; a section is the list of its lines [number, key]
EmptyResponse == [empty |-> TRUE, sections |-> << >>]

\* citation.source and citation.page (0: the citation has no page)
CitationSources == {"a.pdf", "b.pdf"}

CitationPages == {0, 7}

Citations == [source : CitationSources, page : CitationPages]

CitationLists == UNION {[1..n -> Citations] : n \in 0..MaxCitations}

\* a section the model wrote itself
OwnSection == <<[number |-> 1, key |-> [source |-> "a.pdf", page |-> 0]]>>

Responses ==
  {EmptyResponse, [empty |-> FALSE, sections |-> << >>],
   [empty |-> FALSE, sections |-> <<OwnSection>>]}

\* geminiService.js 2102: /\n\nREFEREN[CS]I:|\n\nSUMBER:|\n\nREFERENCES:/i
HasReferencesSection(response) == Len(response.sections) > 0

\* geminiService.js 2112: source + (page ? ` (halaman ${page})` : '')
SourceKey(citation) == [source |-> citation.source, page |-> citation.page]

\* geminiService.js 2111-2116: the lines of uniqueSources in insertion order;
\* a line is numbered `idx + 1` (2114), the position in `citations` of the
\* first citation with its key; idx counts from 1 here
RECURSIVE UniqueSourcesFrom(_, _, _)
UniqueSourcesFrom(citations, idx, seen) ==
  IF idx > Len(citations) THEN << >>
  ELSE LET sourceKey == SourceKey(citations[idx])
       IN IF sourceKey \in seen
            THEN UniqueSourcesFrom(citations, idx + 1, seen)
            ELSE <<[number |-> idx, key |-> sourceKey]>>
                 \o UniqueSourcesFrom(citations, idx + 1, seen \cup {sourceKey})

\* geminiService.js 2098-2123
ensureReferences(response, citations) ==
  IF response.empty THEN EmptyResponse
  ELSE IF HasReferencesSection(response) THEN response
  ELSE IF Len(citations) > 0
    THEN [response EXCEPT !.sections =
            Append(@, UniqueSourcesFrom(citations, 1, {}))]
    ELSE response

InitReferences ==
  /\ fResponse \in Responses
  /\ fCitations \in CitationLists
  /\ fOut = EmptyResponse
  /\ fTwice = EmptyResponse
  /\ fStatus = "start"

IdleReferences ==
  /\ fResponse = EmptyResponse
  /\ fCitations = << >>
  /\ fOut = EmptyResponse
  /\ fTwice = EmptyResponse
  /\ fStatus = "idle"

\* geminiService.js 2098-2123: ensureReferences(response, citations)
EnsureReferencesCall ==
  /\ fStatus = "start"
  /\ fOut' = ensureReferences(fResponse, fCitations)
  /\ fStatus' = "once"
  /\ UNCHANGED <<fResponse, fCitations, fTwice>>

\* a second application, to the result of the first
EnsureReferencesAgain ==
  /\ fStatus = "once"
  /\ fTwice' = ensureReferences(fOut, fCitations)
  /\ fStatus' = "twice"
  /\ UNCHANGED <<fResponse, fCitations, fOut>>

-----------------------------------------------------------------------------
(* Calls of processDocumentForRag (geminiService.js 928-1075) and
   clearRAGSystem (1136-1193) running concurrently: each action is the code
   between two awaits *)

\* bound on the clearRAGSystem() calls (no document id)
MaxClears == 1

\* chunks per document
ConcurrentChunks == 1

ChunkEntries(d) == [i \in 1..ConcurrentChunks |-> <<d, i>>]

NoIngest == [pc |-> "idle", store |-> 0]

NoRemove == [pc |-> "idle", store |-> 0, fresh |-> 0, keep |-> << >>]

RECURSIVE FilterOut(_, _)
FilterOut(entries, d) ==
  IF entries = << >> THEN << >>
  ELSE (IF Head(entries)[1] = d THEN << >> ELSE <<Head(entries)>>) \o FilterOut(Tail(entries), d)

InitConcurrent ==
  /\ cHeap = << >>
  /\ cStore = 0
  /\ cDocumentIds = {}
  /\ cIngest = [d \in Docs |-> NoIngest]
  /\ cRemove = [d \in Docs |-> NoRemove]
  /\ cClears = 0
  /\ cCompleted = {}

IdleConcurrent ==
  /\ cHeap = << >>
  /\ cStore = 0
  /\ cDocumentIds = {}
  /\ cIngest = [d \in Docs |-> [pc |-> "off", store |-> 0]]
  /\ cRemove = [d \in Docs |-> NoRemove]
  /\ cClears = 0
  /\ cCompleted = {}

\* geminiService.js 1010-1029: after `await textSplitter.splitText`, the
\* store is created if vectorStore is null and vectorStore.addDocuments is
\* called on it; the call awaits the embeddings of the chunks
ProcessDocumentForRagAdd(d) ==
  /\ cIngest[d].pc = "idle"
  /\ IF cStore = 0
       THEN /\ cHeap' = Append(cHeap, << >>)
            /\ cStore' = Len(cHeap) + 1
       ELSE UNCHANGED <<cHeap, cStore>>
  /\ cIngest' = [cIngest EXCEPT ![d] = [pc |-> "embedding", store |-> cStore']]
  /\ UNCHANGED <<cDocumentIds, cRemove, cClears, cCompleted>>

\* MemoryVectorStore.addDocuments resolves: the vectors are pushed on the
\* store the call was made on; geminiService.js 1032: documentIds.add
ProcessDocumentForRagAdded(d) ==
  /\ cIngest[d].pc = "embedding"
  /\ cHeap' = [cHeap EXCEPT ![cIngest[d].store] = @ \o ChunkEntries(d)]
  /\ cDocumentIds' = cDocumentIds \cup {d}
  /\ cIngest' = [cIngest EXCEPT ![d].pc = "done"]
  /\ cCompleted' = cCompleted \cup {d}
  /\ UNCHANGED <<cStore, cRemove, cClears>>

\* geminiService.js 1138-1155: clearRAGSystem(d) with a store and an API
\* key: a new store is made and vectorStore.similaritySearch("", 1000) is
\* called on the current one; the call awaits the embedding of ""
ClearDocumentSearch(d) ==
  /\ cRemove[d].pc = "idle"
  /\ cStore # 0
  /\ cHeap' = Append(cHeap, << >>)
  /\ cRemove' = [cRemove EXCEPT ![d] = [pc |-> "searching", store |-> cStore,
                                        fresh |-> Len(cHeap) + 1, keep |-> << >>]]
  /\ UNCHANGED <<cStore, cDocumentIds, cIngest, cClears, cCompleted>>

\* geminiService.js 1155-1171: the search answers with the entries the store
\* holds now; the others are filtered and, if there are any, handed to
\* newVectorStore.addDocuments, which awaits their embeddings; if there are
\* none the new store replaces vectorStore at once
ClearDocumentFilter(d) ==
  /\ cRemove[d].pc = "searching"
  /\ LET docsToKeep == FilterOut(cHeap[cRemove[d].store], d)
     IN IF Len(docsToKeep) > 0
          THEN /\ cRemove' = [cRemove EXCEPT ![d].pc = "adding", ![d].keep = docsToKeep]
               /\ UNCHANGED <<cStore, cDocumentIds, cCompleted>>
          ELSE /\ cRemove' = [cRemove EXCEPT ![d].pc = "done"]
               /\ cStore' = cRemove[d].fresh
               /\ cDocumentIds' = cDocumentIds \ {d}
               /\ cCompleted' = cCompleted \ {d}
  /\ UNCHANGED <<cHeap, cIngest, cClears>>

\* geminiService.js 1164-1171: the entries kept are pushed on the new store,
\* which replaces vectorStore; documentIds.delete(d)
ClearDocumentReplace(d) ==
  /\ cRemove[d].pc = "adding"
  /\ cHeap' = [cHeap EXCEPT ![cRemove[d].fresh] = @ \o cRemove[d].keep]
  /\ cStore' = cRemove[d].fresh
  /\ cDocumentIds' = cDocumentIds \ {d}
  /\ cRemove' = [cRemove EXCEPT ![d].pc = "done"]
  /\ cCompleted' = cCompleted \ {d}
  /\ UNCHANGED <<cIngest, cClears>>

\* geminiService.js 1138 and 1183-1187: clearRAGSystem() without an id
ClearAll ==
  /\ cClears < MaxClears
  /\ cClears' = cClears + 1
  /\ IF cStore = 0
       THEN UNCHANGED <<cStore, cDocumentIds, cCompleted>>
       ELSE /\ cStore' = 0
            /\ cDocumentIds' = {}
            /\ cCompleted' = {}
  /\ UNCHANGED <<cHeap, cIngest, cRemove>>

\* no call is between two of its awaits
Quiescent ==
  \A d \in Docs : cIngest[d].pc \in {"idle", "done"} /\ cRemove[d].pc \in {"idle", "done"}

\* the entries of the in-memory store
CurrentEntries == IF cStore = 0 THEN << >> ELSE cHeap[cStore]

-----------------------------------------------------------------------------
(* clearRAGSystem(documentId) on stores of any size (geminiService.js
   1136-1193) *)

\* k of `vectorStore.similaritySearch("", 1000)` (geminiService.js 1155)
ClearSearchK == 1000

\* numbers of entries a document has in the store
EntryCounts == {0, 2, ClearSearchK, ClearSearchK + 1}

TotalEntries(count) == count[1] + count[2]

OtherDoc(d) == IF d = 1 THEN 2 ELSE 1

NoCall == [result |-> "none", documentId |-> 0,
           store |-> [exists |-> FALSE, count |-> [d \in Docs |-> 0]], documentIds |-> {}]

\* the numbers of entries of the other document among the k nearest to the
\* embedding of "": any split of the k places the store's content allows
KeptOfOther(count, d) ==
  LET returned == Min(ClearSearchK, TotalEntries(count))
  IN {n \in 0..count[OtherDoc(d)] : returned - n \in 0..count[d]}

\* geminiService.js 1155-1168: the store rebuilt from the entries returned
\* that are not of document d
ClearedStore(store, d, kept) ==
  [exists |-> TRUE, count |-> [store.count EXCEPT ![d] = 0, ![OtherDoc(d)] = kept]]

\* the store is null with any active set (vectorStore = null at 321 and 767
\* leaves documentIds alone, updateRagContextForConversation sets it freely),
\* or holds entries of the documents
InitClear ==
  /\ xStore \in [exists : BOOLEAN, count : [Docs -> EntryCounts]]
  /\ ~xStore.exists => xStore.count = [d \in Docs |-> 0]
  /\ xDocumentIds \in SUBSET Docs
  /\ xEnv \in [apiKey : BOOLEAN, session : BOOLEAN]
  /\ xCall = NoCall

IdleClear ==
  /\ xStore = [exists |-> FALSE, count |-> [d \in Docs |-> 0]]
  /\ xDocumentIds = {}
  /\ xEnv = [apiKey |-> FALSE, session |-> FALSE]
  /\ xCall = [NoCall EXCEPT !.result = "idle"]

\* geminiService.js 1136-1193, called with a document id. embedFails: the
\* embedding request of similaritySearch or of addDocuments is rejected;
\* sessionFails: supabase.auth.getSession() rejects (1174-1179)
ClearRAGSystemCall ==
  /\ xCall.result = "none"
  /\ \E d \in Docs, embedFails \in BOOLEAN, sessionFails \in BOOLEAN :
       \E kept \in KeptOfOther(xStore.count, d) :
         LET Returns(result) == [result |-> result, documentId |-> d, store |-> xStore,
                                 documentIds |-> xDocumentIds]
         IN IF ~xStore.exists
              THEN /\ embedFails = FALSE /\ sessionFails = FALSE
                   /\ xCall' = Returns("true")
                   /\ UNCHANGED <<xStore, xDocumentIds>>
            ELSE IF ~xEnv.apiKey
              THEN /\ embedFails = FALSE /\ sessionFails = FALSE
                   /\ kept = Min(xStore.count[OtherDoc(d)], ClearSearchK)
                   /\ xCall' = Returns("false")
                   /\ UNCHANGED <<xStore, xDocumentIds>>
            ELSE IF embedFails
              THEN /\ sessionFails = FALSE
                   /\ kept = Min(xStore.count[OtherDoc(d)], ClearSearchK)
                   /\ xCall' = Returns("false")
                   /\ UNCHANGED <<xStore, xDocumentIds>>
            ELSE /\ xStore' = ClearedStore(xStore, d, kept)
                 /\ xDocumentIds' = xDocumentIds \ {d}
                 /\ sessionFails => xEnv.session
                 /\ xCall' = Returns(IF sessionFails THEN "false" ELSE "true")
  /\ UNCHANGED xEnv

-----------------------------------------------------------------------------
(* sendMessage (useChatSystem.js 292-526) *)

\* calls of sendMessage made in one behaviour
MaxSends == 2

\* the content argument: blank, or a question
Contents == {"", "q"}

\* content.trim() is empty (293)
IsBlank(content) == content = ""

\* the arguments and hook state the precondition checks read (293-323)
SendInputs ==
  [content        : Contents,
   conversationId : BOOLEAN,   \* a conversation id was passed
   apiKey         : BOOLEAN,   \* the hook's apiKey is set
   activeDocs     : BOOLEAN,   \* getActiveRagDocuments() is non-empty
   serviceDocs    : BOOLEAN,   \* getActiveDocumentIds() is non-empty
   isSystemReady  : BOOLEAN]

\* the error set by the first precondition check that fails, "null" if none does
PreconditionError(in) ==
  LET activeDocIds == IF ~in.activeDocs /\ in.isSystemReady
                        THEN in.serviceDocs
                        ELSE in.activeDocs
  IN IF IsBlank(in.content) \/ ~in.conversationId THEN "input"
     ELSE IF ~in.apiKey THEN "apiKey"
     ELSE IF ~activeDocIds /\ ~in.isSystemReady THEN "noDocuments"
     ELSE "null"

\* `local-user-${Date.now()}` (331)
LocalUserMessageId(t) == <<"local-user", t>>

\* `local-assistant-${Date.now()}` (332)
LocalAssistantMessageId(t) == <<"local-assistant", t>>

\* the id of the row the insert returned for a message of this role
SavedId(role, t) == <<role, t>>

UserMessage(content, t) ==
  [id |-> LocalUserMessageId(t), role |-> "user", content |-> content, typing |-> FALSE]

TypingIndicator(t) ==
  [id |-> LocalAssistantMessageId(t), role |-> "assistant", content |-> "...", typing |-> TRUE]

\* what queryWithRAG resolves with: the text may be missing, a thinking process may come along
RagResponses == [text : {"", "answer"}, thinking : BOOLEAN]

NoResponse == [text |-> "", thinking |-> FALSE]

\* response?.text || "Maaf, saya tidak bisa memproses permintaan Anda saat ini." (383)
AssistantMessageContent(response) ==
  IF response.text = "" THEN "Maaf" ELSE response.text

\* the typing indicator is left as it is
KeepTypingIndicator(messages, id, content) == messages

\* prevMessages.map(msg => msg.id === id ? {...msg, content, isTypingIndicator: false} : msg)
ReplaceTypingIndicator(messages, id, content) ==
  [i \in 1..Len(messages) |->
     IF messages[i].id = id
       THEN [messages[i] EXCEPT !.content = content, !.typing = FALSE]
       ELSE messages[i]]

RECURSIVE RemoveMessages(_, _)
\* prevMessages.filter(m => m.id is none of ids)
RemoveMessages(messages, ids) ==
  IF messages = <<>> THEN <<>>
  ELSE IF Head(messages).id \in ids
         THEN RemoveMessages(Tail(messages), ids)
         ELSE <<Head(messages)>> \o RemoveMessages(Tail(messages), ids)

\* the local ids are replaced by the ids of the saved rows (449-461)
WithSavedIds(messages, t, returned) ==
  [i \in 1..Len(messages) |->
     IF messages[i].id = LocalUserMessageId(t) /\ returned
       THEN [messages[i] EXCEPT !.id = SavedId("user", t)]
     ELSE IF messages[i].id = LocalAssistantMessageId(t) /\ returned
       THEN [messages[i] EXCEPT !.id = SavedId("assistant", t)]
     ELSE messages[i]]

ThinkingMessage(t) ==
  [id |-> SavedId("thinking", t), role |-> "thinking", content |-> "thinking", typing |-> FALSE]

\* the thinking message goes right after its assistant message, or to the end (478-487)
InsertThinking(messages, t) ==
  LET at == {i \in 1..Len(messages) : messages[i].id = SavedId("assistant", t)}
  IN IF at = {} THEN Append(messages, ThinkingMessage(t))
     ELSE LET assistantIndex == CHOOSE i \in at : \A j \in at : i <= j
          IN SubSeq(messages, 1, assistantIndex) \o <<ThinkingMessage(t)>>
               \o SubSeq(messages, assistantIndex + 1, Len(messages))

NoSend == [before |-> <<>>, content |-> "", time |-> 0, response |-> NoResponse, outcome |-> "none"]

InitSend ==
  /\ hMessages = <<>>
  /\ hIsProcessing = FALSE
  /\ hError = "null"
  /\ hPc = "idle"
  /\ hCall = NoSend
  /\ hClock = 1
  /\ hSends = 0

IdleSend ==
  /\ hMessages = <<>>
  /\ hIsProcessing = FALSE
  /\ hError = "null"
  /\ hPc = "off"
  /\ hCall = NoSend
  /\ hClock = 1
  /\ hSends = 0

\* a precondition check fails: the error is set and the call returns (293-323)
SendMessageRejected ==
  /\ hPc = "idle"
  /\ hSends < MaxSends
  /\ \E in \in SendInputs :
       /\ PreconditionError(in) # "null"
       /\ hError' = PreconditionError(in)
       /\ hCall' = [NoSend EXCEPT !.before = hMessages, !.content = in.content,
                                  !.outcome = "rejected"]
  /\ hSends' = hSends + 1
  /\ UNCHANGED <<hMessages, hIsProcessing, hPc, hClock>>

\* the checks pass: isProcessing is set, the error cleared, the user message
\* and the typing indicator are appended, queryWithRAG is awaited (325-381)
SendMessageStart ==
  /\ hPc = "idle"
  /\ hSends < MaxSends
  /\ \E in \in SendInputs :
       /\ PreconditionError(in) = "null"
       /\ hMessages' = hMessages \o <<UserMessage(in.content, hClock), TypingIndicator(hClock)>>
       /\ hCall' = [NoSend EXCEPT !.before = hMessages, !.content = in.content,
                                  !.time = hClock, !.outcome = "running"]
  /\ hIsProcessing' = TRUE
  /\ hError' = "null"
  /\ hPc' = "querying"
  /\ hClock' = hClock + 1
  /\ hSends' = hSends + 1

\* queryWithRAG resolves: the typing indicator becomes the answer and the
\* insert of the messages is awaited (383-434)
QueryWithRAGResolves ==
  /\ hPc = "querying"
  /\ \E response \in RagResponses :
       /\ hMessages' = ReplaceTypingIndicator(hMessages, LocalAssistantMessageId(hCall.time),
                                              AssistantMessageContent(response))
       /\ hCall' = [hCall EXCEPT !.response = response]
  /\ hPc' = "saving"
  /\ UNCHANGED <<hIsProcessing, hError, hClock, hSends>>

\* queryWithRAG rejects: an error is set, the typing indicator is removed and
\* the insert of the user message alone is awaited (490-511)
QueryWithRAGRejects ==
  /\ hPc = "querying"
  /\ \E noDocuments \in BOOLEAN :
       hError' = IF noDocuments THEN "notProcessed" ELSE "query"
  /\ hMessages' = RemoveMessages(hMessages, {LocalAssistantMessageId(hCall.time)})
  /\ hPc' = "savingUser"
  /\ UNCHANGED <<hIsProcessing, hCall, hClock, hSends>>

\* the insert of the user message settles either way (504-514), then finally (523-525)
InsertUserMessageSettles ==
  /\ hPc = "savingUser"
  /\ hIsProcessing' = FALSE
  /\ hPc' = "idle"
  /\ hCall' = [hCall EXCEPT !.outcome = "queryFailed"]
  /\ UNCHANGED <<hMessages, hError, hClock, hSends>>

\* the insert of the messages answers (431-489): with an error both optimistic
\* messages are removed; without, the ids of the saved rows are taken over and
\* with a thinking row the update of its metadata is awaited
InsertMessagesSettles ==
  /\ hPc = "saving"
  /\ \E insertError \in BOOLEAN, returned \in BOOLEAN :
       IF insertError
         THEN /\ hError' = "save"
              /\ hMessages' = RemoveMessages(hMessages, {LocalUserMessageId(hCall.time),
                                                         LocalAssistantMessageId(hCall.time)})
              /\ hIsProcessing' = FALSE
              /\ hPc' = "idle"
              /\ hCall' = [hCall EXCEPT !.outcome = "saveFailed"]
         ELSE /\ hMessages' = WithSavedIds(hMessages, hCall.time, returned)
              /\ hError' = hError
              /\ IF returned /\ hCall.response.thinking
                   THEN /\ hPc' = "linking"
                        /\ UNCHANGED <<hIsProcessing, hCall>>
                   ELSE /\ hIsProcessing' = FALSE
                        /\ hPc' = "idle"
                        /\ hCall' = [hCall EXCEPT !.outcome = "success"]
  /\ UNCHANGED <<hClock, hSends>>

\* the update of the thinking row settles: the thinking message is shown
\* after the answer (466-488), then finally (523-525)
UpdateThinkingSettles ==
  /\ hPc = "linking"
  /\ hMessages' = InsertThinking(hMessages, hCall.time)
  /\ hIsProcessing' = FALSE
  /\ hPc' = "idle"
  /\ hCall' = [hCall EXCEPT !.outcome = "success"]
  /\ UNCHANGED <<hError, hClock, hSends>>

-----------------------------------------------------------------------------
(* Specifications: each runs one component, the others standing idle *)

\* the wrapper not in use
IdleRetry ==
  /\ rMax = 1
  /\ rMaxDelay = 10000
  /\ rAttempt = 0
  /\ rCalls = 0
  /\ rStatus = "running"
  /\ rDelays = <<>>
  /\ rLastError = NoError
  /\ rThrown = NoError

NextRetry ==
  \/ RetryFnSucceeds /\ UNCHANGED <<varsEmbed, varsNorm, varsRag, varsDedup, varsUpload, varsMetrics, varsSearch, varsStore, varsMemory, varsSupplement, varsReferences, varsConcurrent, varsClear, varsSend>>
  \/ RetryFnFails /\ UNCHANGED <<varsEmbed, varsNorm, varsRag, varsDedup, varsUpload, varsMetrics, varsSearch, varsStore, varsMemory, varsSupplement, varsReferences, varsConcurrent, varsClear, varsSend>>
  \/ RetryExhausted /\ UNCHANGED <<varsEmbed, varsNorm, varsRag, varsDedup, varsUpload, varsMetrics, varsSearch, varsStore, varsMemory, varsSupplement, varsReferences, varsConcurrent, varsClear, varsSend>>

InitSpecRetry == InitRetry /\ IdleEmbed /\ IdleNorm /\ IdleRag /\ IdleDedup /\ IdleUpload /\ IdleMetrics /\ IdleSearch /\ IdleStore /\ IdleMemory /\ IdleSupplement /\ IdleReferences /\ IdleConcurrent /\ IdleClear /\ IdleSend

SpecRetry == InitSpecRetry /\ [][NextRetry]_vars

NextEmbed ==
  \/ EmbedBatch /\ UNCHANGED <<varsRetry, varsNorm, varsRag, varsDedup, varsUpload, varsMetrics, varsSearch, varsStore, varsMemory, varsSupplement, varsReferences, varsConcurrent, varsClear, varsSend>>
  \/ EmbedReturn /\ UNCHANGED <<varsRetry, varsNorm, varsRag, varsDedup, varsUpload, varsMetrics, varsSearch, varsStore, varsMemory, varsSupplement, varsReferences, varsConcurrent, varsClear, varsSend>>

InitSpecEmbed == InitEmbed /\ IdleRetry /\ IdleNorm /\ IdleRag /\ IdleDedup /\ IdleUpload /\ IdleMetrics /\ IdleSearch /\ IdleStore /\ IdleMemory /\ IdleSupplement /\ IdleReferences /\ IdleConcurrent /\ IdleClear /\ IdleSend

NextNorm ==
  \/ StoreChunkEmbeddings /\ UNCHANGED <<varsRetry, varsEmbed, varsRag, varsDedup, varsUpload, varsMetrics, varsSearch, varsStore, varsMemory, varsSupplement, varsReferences, varsConcurrent, varsClear, varsSend>>
  \/ VectorSearchQuery /\ UNCHANGED <<varsRetry, varsEmbed, varsRag, varsDedup, varsUpload, varsMetrics, varsSearch, varsStore, varsMemory, varsSupplement, varsReferences, varsConcurrent, varsClear, varsSend>>

InitSpecNorm == InitNorm /\ IdleRetry /\ IdleEmbed /\ IdleRag /\ IdleDedup /\ IdleUpload /\ IdleMetrics /\ IdleSearch /\ IdleStore /\ IdleMemory /\ IdleSupplement /\ IdleReferences /\ IdleConcurrent /\ IdleClear /\ IdleSend

SpecNorm == InitSpecNorm /\ [][NextNorm]_vars

SpecEmbed == InitSpecEmbed /\ [][NextEmbed]_vars

NextRag ==
  \/ InitializeGemini /\ UNCHANGED <<varsRetry, varsEmbed, varsNorm, varsDedup, varsUpload, varsMetrics, varsSearch, varsStore, varsMemory, varsSupplement, varsReferences, varsConcurrent, varsClear, varsSend>>
  \/ ProcessDocumentForRag /\ UNCHANGED <<varsRetry, varsEmbed, varsNorm, varsDedup, varsUpload, varsMetrics, varsSearch, varsStore, varsMemory, varsSupplement, varsReferences, varsConcurrent, varsClear, varsSend>>
  \/ ProcessDocumentsForRAG /\ UNCHANGED <<varsRetry, varsEmbed, varsNorm, varsDedup, varsUpload, varsMetrics, varsSearch, varsStore, varsMemory, varsSupplement, varsReferences, varsConcurrent, varsClear, varsSend>>
  \/ ClearRAGSystemDocument /\ UNCHANGED <<varsRetry, varsEmbed, varsNorm, varsDedup, varsUpload, varsMetrics, varsSearch, varsStore, varsMemory, varsSupplement, varsReferences, varsConcurrent, varsClear, varsSend>>
  \/ ClearRAGSystemAll /\ UNCHANGED <<varsRetry, varsEmbed, varsNorm, varsDedup, varsUpload, varsMetrics, varsSearch, varsStore, varsMemory, varsSupplement, varsReferences, varsConcurrent, varsClear, varsSend>>
  \/ CleanRAGSystem /\ UNCHANGED <<varsRetry, varsEmbed, varsNorm, varsDedup, varsUpload, varsMetrics, varsSearch, varsStore, varsMemory, varsSupplement, varsReferences, varsConcurrent, varsClear, varsSend>>
  \/ ResetRAGSystem /\ UNCHANGED <<varsRetry, varsEmbed, varsNorm, varsDedup, varsUpload, varsMetrics, varsSearch, varsStore, varsMemory, varsSupplement, varsReferences, varsConcurrent, varsClear, varsSend>>
  \/ UpdateRagContextForConversation /\ UNCHANGED <<varsRetry, varsEmbed, varsNorm, varsDedup, varsUpload, varsMetrics, varsSearch, varsStore, varsMemory, varsSupplement, varsReferences, varsConcurrent, varsClear, varsSend>>
  \/ QueryWithRAG /\ UNCHANGED <<varsRetry, varsEmbed, varsNorm, varsDedup, varsUpload, varsSearch, varsStore, varsMemory, varsSupplement, varsReferences, varsConcurrent, varsClear, varsSend>>
  \/ ResetPerformanceMetrics /\ UNCHANGED <<varsRetry, varsEmbed, varsNorm, varsRag, varsDedup, varsUpload, varsSearch, varsStore, varsMemory, varsSupplement, varsReferences, varsConcurrent, varsClear, varsSend>>
  \/ ExecuteRagQuery /\ UNCHANGED <<varsRetry, varsEmbed, varsNorm, varsDedup, varsUpload, varsMetrics, varsSearch, varsStore, varsMemory, varsSupplement, varsReferences, varsConcurrent, varsClear, varsSend>>

InitSpecRag == InitRag /\ IdleRetry /\ IdleEmbed /\ IdleNorm /\ IdleDedup /\ IdleUpload /\ IdleMetrics /\ IdleSearch /\ IdleStore /\ IdleMemory /\ IdleSupplement /\ IdleReferences /\ IdleConcurrent /\ IdleClear /\ IdleSend

SpecRag == InitSpecRag /\ [][NextRag]_vars

NextDedup ==
  \/ DeduplicateCall /\ UNCHANGED <<varsRetry, varsEmbed, varsNorm, varsRag, varsUpload, varsMetrics, varsSearch, varsStore, varsMemory, varsSupplement, varsReferences, varsConcurrent, varsClear, varsSend>>

InitSpecDedup == InitDedup /\ IdleRetry /\ IdleEmbed /\ IdleNorm /\ IdleRag /\ IdleUpload /\ IdleMetrics /\ IdleSearch /\ IdleStore /\ IdleMemory /\ IdleSupplement /\ IdleReferences /\ IdleConcurrent /\ IdleClear /\ IdleSend

SpecDedup == InitSpecDedup /\ [][NextDedup]_vars

NextIngest ==
  \/ ProcessDocumentsForRAG /\ UNCHANGED <<varsRetry, varsEmbed, varsNorm, varsDedup, varsUpload, varsMetrics, varsSearch, varsStore, varsMemory, varsSupplement, varsReferences, varsConcurrent, varsClear, varsSend>>
  \/ CleanRAGSystem /\ UNCHANGED <<varsRetry, varsEmbed, varsNorm, varsDedup, varsUpload, varsMetrics, varsSearch, varsStore, varsMemory, varsSupplement, varsReferences, varsConcurrent, varsClear, varsSend>>

InitSpecIngest == InitIngest /\ IdleRetry /\ IdleEmbed /\ IdleNorm /\ IdleDedup /\ IdleUpload /\ IdleMetrics /\ IdleSearch /\ IdleStore /\ IdleMemory /\ IdleSupplement /\ IdleReferences /\ IdleConcurrent /\ IdleClear /\ IdleSend

SpecIngest == InitSpecIngest /\ [][NextIngest]_vars

NextDelete ==
  \/ DeleteDocument /\ UNCHANGED <<varsRetry, varsEmbed, varsNorm, varsDedup, varsUpload, varsMetrics, varsSearch, varsStore, varsMemory, varsSupplement, varsReferences, varsConcurrent, varsClear, varsSend>>
  \/ UpdateRagContextForConversation /\ UNCHANGED <<varsRetry, varsEmbed, varsNorm, varsDedup, varsUpload, varsMetrics, varsSearch, varsStore, varsMemory, varsSupplement, varsReferences, varsConcurrent, varsClear, varsSend>>

InitSpecDelete == InitDelete /\ IdleRetry /\ IdleEmbed /\ IdleNorm /\ IdleDedup /\ IdleUpload /\ IdleMetrics /\ IdleSearch /\ IdleStore /\ IdleMemory /\ IdleSupplement /\ IdleReferences /\ IdleConcurrent /\ IdleClear /\ IdleSend

SpecDelete == InitSpecDelete /\ [][NextDelete]_vars

NextUpload ==
  \/ ProcessPdfFiles /\ UNCHANGED <<varsRetry, varsEmbed, varsNorm, varsRag, varsDedup, varsMetrics, varsSearch, varsStore, varsMemory, varsSupplement, varsReferences, varsConcurrent, varsClear, varsSend>>
  \/ ProcessPdfForRagBegin /\ UNCHANGED <<varsRetry, varsEmbed, varsNorm, varsRag, varsDedup, varsMetrics, varsSearch, varsStore, varsMemory, varsSupplement, varsReferences, varsConcurrent, varsClear, varsSend>>
  \/ ProcessPdfForRagFile /\ UNCHANGED <<varsRetry, varsEmbed, varsNorm, varsRag, varsDedup, varsMetrics, varsSearch, varsStore, varsMemory, varsSupplement, varsReferences, varsConcurrent, varsClear, varsSend>>
  \/ ProcessPdfForRagEnd /\ UNCHANGED <<varsRetry, varsEmbed, varsNorm, varsRag, varsDedup, varsMetrics, varsSearch, varsStore, varsMemory, varsSupplement, varsReferences, varsConcurrent, varsClear, varsSend>>
  \/ LoadDocuments /\ UNCHANGED <<varsRetry, varsEmbed, varsNorm, varsRag, varsDedup, varsMetrics, varsSearch, varsStore, varsMemory, varsSupplement, varsReferences, varsConcurrent, varsClear, varsSend>>
  \/ RemoveDocument /\ UNCHANGED <<varsRetry, varsEmbed, varsNorm, varsRag, varsDedup, varsMetrics, varsSearch, varsStore, varsMemory, varsSupplement, varsReferences, varsConcurrent, varsClear, varsSend>>

InitSpecUpload == InitUpload /\ IdleRetry /\ IdleEmbed /\ IdleNorm /\ IdleRag /\ IdleDedup /\ IdleMetrics /\ IdleSearch /\ IdleStore /\ IdleMemory /\ IdleSupplement /\ IdleReferences /\ IdleConcurrent /\ IdleClear /\ IdleSend

SpecUpload == InitSpecUpload /\ [][NextUpload]_vars

NextSearch ==
  \/ PerformVectorSearchCall /\ UNCHANGED <<varsRetry, varsEmbed, varsNorm, varsRag, varsDedup, varsUpload, varsMetrics, varsStore, varsMemory, varsSupplement, varsReferences, varsConcurrent, varsClear, varsSend>>
  \/ GetRelevantDocsFromDatabaseCall /\ UNCHANGED <<varsRetry, varsEmbed, varsNorm, varsRag, varsDedup, varsUpload, varsMetrics, varsStore, varsMemory, varsSupplement, varsReferences, varsConcurrent, varsClear, varsSend>>

InitSpecSearch == InitSearch /\ IdleRetry /\ IdleEmbed /\ IdleNorm /\ IdleRag /\ IdleDedup /\ IdleUpload /\ IdleMetrics /\ IdleStore /\ IdleMemory /\ IdleSupplement /\ IdleReferences /\ IdleConcurrent /\ IdleClear /\ IdleSend

SpecSearch == InitSpecSearch /\ [][NextSearch]_vars

NextStore ==
  \/ StoreDocumentChunksCall /\ UNCHANGED <<varsRetry, varsEmbed, varsNorm, varsRag, varsDedup, varsUpload, varsMetrics, varsSearch, varsMemory, varsSupplement, varsReferences, varsConcurrent, varsClear, varsSend>>

InitSpecStore == InitStore /\ IdleRetry /\ IdleEmbed /\ IdleNorm /\ IdleRag /\ IdleDedup /\ IdleUpload /\ IdleMetrics /\ IdleSearch /\ IdleMemory /\ IdleSupplement /\ IdleReferences /\ IdleConcurrent /\ IdleClear /\ IdleSend

SpecStore == InitSpecStore /\ [][NextStore]_vars

NextMemory ==
  \/ TryVariation /\ UNCHANGED <<varsRetry, varsEmbed, varsNorm, varsRag, varsDedup, varsUpload, varsMetrics, varsSearch, varsStore, varsSupplement, varsReferences, varsConcurrent, varsClear, varsSend>>
  \/ GetRelevantDocsFromMemoryReturn /\ UNCHANGED <<varsRetry, varsEmbed, varsNorm, varsRag, varsDedup, varsUpload, varsMetrics, varsSearch, varsStore, varsSupplement, varsReferences, varsConcurrent, varsClear, varsSend>>

InitSpecMemory == InitMemory /\ IdleRetry /\ IdleEmbed /\ IdleNorm /\ IdleRag /\ IdleDedup /\ IdleUpload /\ IdleMetrics /\ IdleSearch /\ IdleStore /\ IdleSupplement /\ IdleReferences /\ IdleConcurrent /\ IdleClear /\ IdleSend

SpecMemory == InitSpecMemory /\ [][NextMemory]_vars

NextSupplement ==
  \/ QueryWithRAGRetrieval /\ UNCHANGED <<varsRetry, varsEmbed, varsNorm, varsRag, varsDedup, varsUpload, varsMetrics, varsSearch, varsStore, varsMemory, varsReferences, varsConcurrent, varsClear, varsSend>>

InitSpecSupplement == InitSupplement /\ IdleRetry /\ IdleEmbed /\ IdleNorm /\ IdleRag /\ IdleDedup /\ IdleUpload /\ IdleMetrics /\ IdleSearch /\ IdleStore /\ IdleMemory /\ IdleReferences /\ IdleConcurrent /\ IdleClear /\ IdleSend

SpecSupplement == InitSpecSupplement /\ [][NextSupplement]_vars

NextReferences ==
  \/ EnsureReferencesCall /\ UNCHANGED <<varsRetry, varsEmbed, varsNorm, varsRag, varsDedup, varsUpload, varsMetrics, varsSearch, varsStore, varsMemory, varsSupplement, varsConcurrent, varsClear, varsSend>>
  \/ EnsureReferencesAgain /\ UNCHANGED <<varsRetry, varsEmbed, varsNorm, varsRag, varsDedup, varsUpload, varsMetrics, varsSearch, varsStore, varsMemory, varsSupplement, varsConcurrent, varsClear, varsSend>>

InitSpecReferences == InitReferences /\ IdleRetry /\ IdleEmbed /\ IdleNorm /\ IdleRag /\ IdleDedup /\ IdleUpload /\ IdleMetrics /\ IdleSearch /\ IdleStore /\ IdleMemory /\ IdleSupplement /\ IdleConcurrent /\ IdleClear /\ IdleSend

SpecReferences == InitSpecReferences /\ [][NextReferences]_vars

NextConcurrent ==
  \/ (\E d \in Docs : ProcessDocumentForRagAdd(d)) /\ UNCHANGED <<varsRetry, varsEmbed, varsNorm, varsRag, varsDedup, varsUpload, varsMetrics, varsSearch, varsStore, varsMemory, varsSupplement, varsReferences, varsClear, varsSend>>
  \/ (\E d \in Docs : ProcessDocumentForRagAdded(d)) /\ UNCHANGED <<varsRetry, varsEmbed, varsNorm, varsRag, varsDedup, varsUpload, varsMetrics, varsSearch, varsStore, varsMemory, varsSupplement, varsReferences, varsClear, varsSend>>
  \/ (\E d \in Docs : ClearDocumentSearch(d)) /\ UNCHANGED <<varsRetry, varsEmbed, varsNorm, varsRag, varsDedup, varsUpload, varsMetrics, varsSearch, varsStore, varsMemory, varsSupplement, varsReferences, varsClear, varsSend>>
  \/ (\E d \in Docs : ClearDocumentFilter(d)) /\ UNCHANGED <<varsRetry, varsEmbed, varsNorm, varsRag, varsDedup, varsUpload, varsMetrics, varsSearch, varsStore, varsMemory, varsSupplement, varsReferences, varsClear, varsSend>>
  \/ (\E d \in Docs : ClearDocumentReplace(d)) /\ UNCHANGED <<varsRetry, varsEmbed, varsNorm, varsRag, varsDedup, varsUpload, varsMetrics, varsSearch, varsStore, varsMemory, varsSupplement, varsReferences, varsClear, varsSend>>
  \/ ClearAll /\ UNCHANGED <<varsRetry, varsEmbed, varsNorm, varsRag, varsDedup, varsUpload, varsMetrics, varsSearch, varsStore, varsMemory, varsSupplement, varsReferences, varsClear, varsSend>>

InitSpecConcurrent == InitConcurrent /\ IdleRetry /\ IdleEmbed /\ IdleNorm /\ IdleRag /\ IdleDedup /\ IdleUpload /\ IdleMetrics /\ IdleSearch /\ IdleStore /\ IdleMemory /\ IdleSupplement /\ IdleReferences /\ IdleClear /\ IdleSend

SpecConcurrent == InitSpecConcurrent /\ [][NextConcurrent]_vars

NextClear ==
  \/ ClearRAGSystemCall /\ UNCHANGED <<varsRetry, varsEmbed, varsNorm, varsRag, varsDedup, varsUpload, varsMetrics, varsSearch, varsStore, varsMemory, varsSupplement, varsReferences, varsConcurrent, varsSend>>

InitSpecClear == InitClear /\ IdleRetry /\ IdleEmbed /\ IdleNorm /\ IdleRag /\ IdleDedup /\ IdleUpload /\ IdleMetrics /\ IdleSearch /\ IdleStore /\ IdleMemory /\ IdleSupplement /\ IdleReferences /\ IdleConcurrent /\ IdleSend

SpecClear == InitSpecClear /\ [][NextClear]_vars

NextSend ==
  \/ SendMessageRejected /\ UNCHANGED <<varsRetry, varsEmbed, varsNorm, varsRag, varsDedup, varsUpload, varsMetrics, varsSearch, varsStore, varsMemory, varsSupplement, varsReferences, varsConcurrent, varsClear>>
  \/ SendMessageStart /\ UNCHANGED <<varsRetry, varsEmbed, varsNorm, varsRag, varsDedup, varsUpload, varsMetrics, varsSearch, varsStore, varsMemory, varsSupplement, varsReferences, varsConcurrent, varsClear>>
  \/ QueryWithRAGResolves /\ UNCHANGED <<varsRetry, varsEmbed, varsNorm, varsRag, varsDedup, varsUpload, varsMetrics, varsSearch, varsStore, varsMemory, varsSupplement, varsReferences, varsConcurrent, varsClear>>
  \/ QueryWithRAGRejects /\ UNCHANGED <<varsRetry, varsEmbed, varsNorm, varsRag, varsDedup, varsUpload, varsMetrics, varsSearch, varsStore, varsMemory, varsSupplement, varsReferences, varsConcurrent, varsClear>>
  \/ InsertUserMessageSettles /\ UNCHANGED <<varsRetry, varsEmbed, varsNorm, varsRag, varsDedup, varsUpload, varsMetrics, varsSearch, varsStore, varsMemory, varsSupplement, varsReferences, varsConcurrent, varsClear>>
  \/ InsertMessagesSettles /\ UNCHANGED <<varsRetry, varsEmbed, varsNorm, varsRag, varsDedup, varsUpload, varsMetrics, varsSearch, varsStore, varsMemory, varsSupplement, varsReferences, varsConcurrent, varsClear>>
  \/ UpdateThinkingSettles /\ UNCHANGED <<varsRetry, varsEmbed, varsNorm, varsRag, varsDedup, varsUpload, varsMetrics, varsSearch, varsStore, varsMemory, varsSupplement, varsReferences, varsConcurrent, varsClear>>

InitSpecSend == InitSend /\ IdleRetry /\ IdleEmbed /\ IdleNorm /\ IdleRag /\ IdleDedup /\ IdleUpload /\ IdleMetrics /\ IdleSearch /\ IdleStore /\ IdleMemory /\ IdleSupplement /\ IdleReferences /\ IdleConcurrent /\ IdleClear

\* every awaited promise of a running call settles
SendSettles ==
  /\ \/ QueryWithRAGResolves
     \/ QueryWithRAGRejects
     \/ InsertUserMessageSettles
     \/ InsertMessagesSettles
     \/ UpdateThinkingSettles
  /\ UNCHANGED <<varsRetry, varsEmbed, varsNorm, varsRag, varsDedup, varsUpload, varsMetrics, varsSearch, varsStore, varsMemory, varsSupplement, varsReferences, varsConcurrent, varsClear>>

SpecSend == InitSpecSend /\ [][NextSend]_vars /\ WF_vars(SendSettles)

-----------------------------------------------------------------------------
(* Properties *)

\* C3: for every maxRetries >= 1 the operation is never invoked more than
\* maxRetries times; when the wrapper has rethrown a retriable error (the
\* operation failed retriably on every attempt) it was invoked exactly
\* maxRetries times and the error rethrown is the last one; once the wrapper
\* has returned or thrown no further step of it is possible.
C3_RetryBounded ==
  /\ rCalls <= rMax
  /\ (rStatus = "thrown" /\ ShouldRetry(rThrown))
       => (rCalls = rMax /\ rThrown = rLastError /\ Len(rDelays) = rMax)
  /\ rStatus \in {"thrown", "returned"} => ~ENABLED NextRetry

\* an always-failing operation that exhausted a budget of several attempts
C3_Witness ==
  /\ rStatus = "thrown"
  /\ ShouldRetry(rThrown)
  /\ rMax >= 5
  /\ rCalls = rMax


\* the wrapper returns for this script: some call within the retry budget
\* resolves and every call before it failed with a retriable error
EmbeddingSucceeds(script) ==
  \E k \in 1..EmbedMaxRetries :
     /\ ScriptAt(script, k) = NoError
     /\ \A j \in 1..(k - 1) : ShouldRetry(ScriptAt(script, j))

C6_EveryVectorHasLengthD ==
  eStatus = "done" => \A k \in 1..Len(eOut) : Len(eOut[k]) = EXPECTED_DIMENSIONS


\* the embedding storeDocumentChunks works on for chunk k of the latest call
GivenEmbedding(k) ==
  IF nEmbIn.isNull \/ Len(nEmbIn.vec) # nChunkCount
    THEN (IF ~nEmbIn.isNull /\ k <= Len(nEmbIn.vec) THEN nEmbIn.vec[k] ELSE NullEmbedding)
    ELSE nEmbIn.vec[k]

IsPrefixPadded(out, in) ==
  /\ Len(out) = EXPECTED_DIMENSIONS
  /\ \A k \in 1..EXPECTED_DIMENSIONS : out[k] = IF k <= Len(in) THEN in[k] ELSE 0

IsTruncated(out, in) ==
  /\ Len(out) = EXPECTED_DIMENSIONS
  /\ \A k \in 1..EXPECTED_DIMENSIONS : out[k] = in[k]

IsAllZero(out) ==
  /\ Len(out) = EXPECTED_DIMENSIONS
  /\ \A k \in 1..EXPECTED_DIMENSIONS : out[k] = 0

\* C5 as stated: every stored row and every query vector sent has exactly
\* EXPECTED_DIMENSIONS components; a shorter input is its own prefix padded
\* with zeros, a longer one its first EXPECTED_DIMENSIONS components, a
\* missing one all zeros.
C5_Original ==
  /\ \A k \in 1..Len(nRows) :
       LET e == GivenEmbedding(k) IN
       /\ Len(nRows[k]) = EXPECTED_DIMENSIONS
       /\ e.isNull => IsAllZero(nRows[k])
       /\ (~e.isNull /\ Len(e.vec) <= EXPECTED_DIMENSIONS) => IsPrefixPadded(nRows[k], e.vec)
       /\ (~e.isNull /\ Len(e.vec) > EXPECTED_DIMENSIONS) => IsTruncated(nRows[k], e.vec)
  /\ nQueryOut.status = "sent" =>
       /\ Len(nQueryOut.vec) = EXPECTED_DIMENSIONS
       /\ Len(nQueryIn.vec) <= EXPECTED_DIMENSIONS => IsPrefixPadded(nQueryOut.vec, nQueryIn.vec)
       /\ Len(nQueryIn.vec) > EXPECTED_DIMENSIONS => IsTruncated(nQueryOut.vec, nQueryIn.vec)

\* C5 as amended: every stored row and every query vector sent has exactly
\* EXPECTED_DIMENSIONS components.  A stored row is all zeros when its
\* embedding is missing or has a component that is not a finite number;
\* otherwise it is the input padded with zeros (shorter) or cut to its
\* first EXPECTED_DIMENSIONS components (longer).  A query vector is sent
\* only if it is present and, after the same padding or cut, all its
\* components are finite numbers; otherwise nothing is sent.
C5_NormalisedToD ==
  /\ \A k \in 1..Len(nRows) :
       LET e == GivenEmbedding(k) IN
       /\ Len(nRows[k]) = EXPECTED_DIMENSIONS
       /\ (e.isNull \/ HasInvalidValues(e.vec)) => IsAllZero(nRows[k])
       /\ (~e.isNull /\ ~HasInvalidValues(e.vec) /\ Len(e.vec) <= EXPECTED_DIMENSIONS)
            => IsPrefixPadded(nRows[k], e.vec)
       /\ (~e.isNull /\ ~HasInvalidValues(e.vec) /\ Len(e.vec) > EXPECTED_DIMENSIONS)
            => IsTruncated(nRows[k], e.vec)
  /\ nQueryOut.status = "sent" =>
       /\ ~nQueryIn.isNull
       /\ Len(nQueryOut.vec) = EXPECTED_DIMENSIONS
       /\ ~HasInvalidValues(nQueryOut.vec)
       /\ Len(nQueryIn.vec) <= EXPECTED_DIMENSIONS => IsPrefixPadded(nQueryOut.vec, nQueryIn.vec)
       /\ Len(nQueryIn.vec) > EXPECTED_DIMENSIONS => IsTruncated(nQueryOut.vec, nQueryIn.vec)
  /\ nQueryOut.status = "rejected" =>
       (nQueryIn.isNull \/ \E k \in 1..Min(Len(nQueryIn.vec), EXPECTED_DIMENSIONS) : nQueryIn.vec[k] = NaN)

\* a call that stored a padded short vector beside a zeroed invalid one, and
\* a search that sent a truncated long query vector
C5_Witness ==
  /\ nChunkCount = 2
  /\ Len(nRows) = 2
  /\ ~nEmbIn.isNull
  /\ Len(nEmbIn.vec) = 2
  /\ nEmbIn.vec[1] = Emb(NumericVector(EXPECTED_DIMENSIONS - 1))
  /\ nEmbIn.vec[2] = Emb(TaintedVector(EXPECTED_DIMENSIONS - 1))
  /\ nRows[1][EXPECTED_DIMENSIONS] = 0
  /\ nRows[1][1] = 2
  /\ nQueryOut.status = "sent"
  /\ Len(nQueryIn.vec) = EXPECTED_DIMENSIONS + 1

\* C1: whenever the in-memory vector store is null or holds no entry, a
\* query entry point (queryWithRAG, or executeRagQuery once Gemini is
\* initialised) ends in the "no documents processed" error and makes no
\* LLM generate call.
C1_NoDocumentsFailsFast ==
  ( /\ lastOp.op \in {"queryWithRAG", "executeRagQuery"}
    /\ lastOp.op = "executeRagQuery" => geminiApiKey
    /\ (~vectorStore.exists \/ vectorStore.docs = << >>) )
  => (lastOp.outcome = "no_documents" /\ ~lastOp.llmCalled)

\* C2: a queryWithRAG call whose result list is still empty after the
\* in-memory search and the persistent supplement ends in the "no relevant
\* information" error; it returns no answer and makes no LLM call, so
\* every LLM call and every answer has a non-empty result list.
C2_EmptyResultIsAnError ==
  lastOp.op = "queryWithRAG" =>
    /\ (vectorStore.exists /\ lastOp.docs = << >>)
         => (lastOp.outcome = "no_relevant" /\ ~lastOp.llmCalled)
    /\ (lastOp.llmCalled \/ lastOp.outcome = "answer") => lastOp.docs # << >>

\* the store and the chunk table both hold entries, yet the query found nothing
C2_Witness ==
  /\ lastOp.op = "queryWithRAG"
  /\ lastOp.outcome = "no_relevant"
  /\ vectorStore.exists
  /\ vectorStore.docs # << >>
  /\ dbChunks # {}

\* C9: every step of clearRAGSystem without a document id, cleanRAGSystem
\* or resetRAGSystem leaves the vector store null, the set documentIds
\* empty and the persisted chunk rows as they were.
C9_ClearEmptiesMemoryOnly ==
  [][ (ClearRAGSystemAll \/ CleanRAGSystem \/ ResetRAGSystem)
        => (/\ vectorStore' = NullStore
            /\ documentIds' = {}
            /\ dbChunks' = dbChunks) ]_vars

\* C10: for every queryWithRAG call that returned an answer, citation i and
\* context block "Dokumen #i" come from the same chunk: same source, same
\* page, the excerpt is the first min(200, length) characters of the block's
\* text, and there are as many citations as blocks as retrieved chunks.
C10_CitationsMatchBlocks ==
  (lastOp.op = "queryWithRAG" /\ lastOp.outcome = "answer") =>
    LET f == formatContextFromDocs(lastOp.docs)
        n == Len(lastOp.docs)
    IN /\ n >= 1
       /\ Len(f.blocks) = n
       /\ Len(f.citations) = n
       /\ \A i \in 1..n :
            /\ f.blocks[i].number = i
            /\ f.blocks[i].body = ChunkText(lastOp.docs[i].chunk)
            /\ f.citations[i].source = f.blocks[i].source
            /\ f.citations[i].page = f.blocks[i].page
            /\ Len(f.citations[i].text) = Min(CitationExcerptLength, Len(f.blocks[i].body))
            /\ \A k \in 1..Len(f.citations[i].text) :
                 f.citations[i].text[k] = f.blocks[i].body[k]

\* an answer built from a memory chunk without a page and a persisted chunk
\* with a page whose text is longer than the excerpt
C10_Witness ==
  /\ lastOp.op = "queryWithRAG"
  /\ lastOp.outcome = "answer"
  /\ Len(lastOp.docs) >= 2
  /\ \E i \in 1..Len(lastOp.docs) :
       /\ lastOp.docs[i].page # 0
       /\ ChunkLength(lastOp.docs[i].chunk) > CitationExcerptLength
  /\ \E i \in 1..Len(lastOp.docs) :
       /\ lastOp.docs[i].page = 0
       /\ Source(lastOp.docs[i]) = "Unknown Source"

\* C7: after processDocumentsForRAG returned true with every upsert
\* accepted, the chunk table holds, for each ingested document, exactly one
\* row per chunk of that document, under that document's own id, and no row
\* under that id holds a chunk of another document.
C7_OneRowPerChunkUnderOwnId ==
  (lastOp.op = "processDocumentsForRAG" /\ lastOp.outcome = "true" /\ lastOp.upsertsOk) =>
    \A k \in 1..Len(lastOp.ids) :
      LET d == lastOp.ids[k] IN
      /\ \A pos \in 1..docChunkCount[d] :
           /\ Cardinality({r \in dbChunks : r.chunk = <<d, pos>>}) = 1
           /\ \A r \in dbChunks : r.chunk = <<d, pos>> => r.document_id = d
      /\ \A r \in dbChunks : r.document_id = d => r.chunk[1] = d

\* C8: after deleteDocument(d) returned success, no conversation's
\* document_context contains d, no chunk row has document_id = d and the
\* document row is gone.
C8_DeleteRemovesEveryTrace ==
  (lastOp.op = "deleteDocument" /\ lastOp.outcome = "success") =>
    LET d == lastOp.ids[1] IN
    /\ \A c \in Convs : d \notin conversations[c]
    /\ \A r \in dbChunks : r.document_id # d
    /\ d \notin documents

\* C11: the chunk list queryWithRAG hands to context assembly is ordered by
\* similarity to the query, highest first, and among chunks of equal
\* similarity one found in memory precedes one supplied by the persistent
\* store.
C11_OrderedBySimilarity ==
  (lastOp.op = "queryWithRAG" /\ lastOp.outcome = "answer") =>
    \A i, j \in 1..Len(lastOp.docs) :
      i < j =>
        LET si == Similarity(lastOp.query, lastOp.docs[i].chunk)
            sj == Similarity(lastOp.query, lastOp.docs[j].chunk)
        IN /\ si >= sj
           /\ (si = sj /\ lastOp.docs[j].origin # "db") => lastOp.docs[i].origin # "db"

\* the first 100 characters of a document's content
Prefix100(doc) == Substring(ChunkText(doc.chunk), 100)

\* the positions of dIn that hold the first document with their prefix
FirstPositions ==
  {i \in 1..Len(dIn) : \A j \in 1..(i - 1) : Prefix100(dIn[j]) # Prefix100(dIn[i])}

\* C12: deduplicateDocuments returns exactly the documents of its input that
\* are the first with their 100-character prefix, in input order: no two
\* returned documents share a prefix, and a later document with the same
\* prefix is dropped even when its full content differs.
C12_DedupKeepsFirstPerPrefix ==
  dDone =>
    /\ Len(dOut) = Cardinality(FirstPositions)
    /\ \A i \in FirstPositions :
         dOut[Cardinality({j \in FirstPositions : j <= i})] = dIn[i]
    /\ \A m, n \in 1..Len(dOut) : m # n => Prefix100(dOut[m]) # Prefix100(dOut[n])

\* a list in which the revision follows the original chunk and was dropped
C12_Witness ==
  /\ dDone
  /\ Len(dIn) = 3
  /\ Len(dOut) = 2
  /\ \E i, j \in 1..Len(dIn) :
       /\ i < j
       /\ Prefix100(dIn[i]) = Prefix100(dIn[j])
       /\ ChunkText(dIn[i].chunk) # ChunkText(dIn[j].chunk)
       /\ \A m \in 1..Len(dOut) : dOut[m] # dIn[j]

\* C13: the hook's document list never holds more than 15 documents,
\* whatever uploads, reloads and removals take place
C13_AtMostFifteenDocuments == uDocuments <= MaxDocuments

\* C14: a queryWithRAG call whose model call fails throws an error whose
\* message contains the message of the underlying error, after the counters
\* `queries` and `failedQueries` were each raised by exactly one and
\* `successfulQueries` left alone; and at every moment
\* queries = successfulQueries + failedQueries.
C14_FailureCountedOnce ==
  /\ [](ragPerformanceMetrics.queries =
          ragPerformanceMetrics.successfulQueries + ragPerformanceMetrics.failedQueries)
  /\ [][ (/\ lastOp'.op = "queryWithRAG"
           /\ lastOp'.outcome = "error"
           \* not a step of resetPerformanceMetrics
           /\ ~(lastOp' = lastOp /\ ragPerformanceMetrics' = NoMetrics))
           => (/\ lastOp'.llmCalled
               /\ Includes(lastOp'.error, lastOp'.llmError)
               /\ ragPerformanceMetrics'.queries = ragPerformanceMetrics.queries + 1
               /\ ragPerformanceMetrics'.failedQueries =
                    ragPerformanceMetrics.failedQueries + 1
               /\ ragPerformanceMetrics'.successfulQueries =
                    ragPerformanceMetrics.successfulQueries) ]_vars

\* an answered query followed by one whose model call failed with a message
C14_Witness ==
  /\ lastOp.op = "queryWithRAG"
  /\ lastOp.outcome = "error"
  /\ lastOp.llmCalled
  /\ lastOp.llmError = "quota exceeded"
  /\ Includes(lastOp.error, "quota exceeded")
  /\ ragPerformanceMetrics =
       [queries |-> 2, successfulQueries |-> 1, failedQueries |-> 1]

\* the persistent store answers neither the vector queries nor the text query
StoreUnreachable == sEnv.rpc = "error" /\ sEnv.sql = "error" /\ sEnv.text = "error"

\* C15: when the persistent store is unreachable for the vector search and
\* for the keyword search, performVectorSearch and
\* getRelevantDocsFromDatabase end in an error instead of returning a list,
\* and no row either of them returns carries a similarity that was not
\* computed from a vector distance.
C15_HardFailureNoSyntheticScore ==
  /\ (StoreUnreachable /\ sVector # NoSearch) => sVector.status = "threw"
  /\ (StoreUnreachable /\ sDatabase # NoSearch) => sDatabase.status = "threw"
  /\ \A i \in DOMAIN sVector.rows : sVector.rows[i].from = "distance"
  /\ \A i \in DOMAIN sDatabase.rows : sDatabase.rows[i].from = "distance"

TransientClass ==
  {e \in Errors :
     \/ e.status \in RetryStatusCodes
     \/ e.respStatus \in RetryStatusCodes
     \/ (e.status = 0 /\ e.respStatus = 0 /\ e.msg = "got status 504")
     \/ e.msg \in {"failed to fetch", "Failed to fetch"}
     \/ e.msg \in {"Resource Exhausted", "Deadline exceeded", "Service Unavailable"}}

\* C17: retryWithAdvancedBackoff waits and calls the operation again only
\* after an error of the transient class; an error outside the class is
\* rethrown at once: no wait follows it and the operation is not called
\* again.
C17_RetriesOnlyTransient ==
  /\ (rAttempt >= 1 /\ rCalls = rAttempt) => rLastError \in TransientClass
  /\ (rStatus = "thrown" /\ rThrown \notin TransientClass)
       => (rCalls = rAttempt + 1 /\ Len(rDelays) = rAttempt)

\* the provider answers 429 three times for the chunk, then resolves
ThreeTimes429 == <<Rate429, Rate429, Rate429, NoError>>

\* C18: for a chunk whose embedding call fails with 429 three times and
\* then resolves, the batch function stores and returns the provider's
\* vector, not the zero vector; the provider was called four times for it
\* and the chunk is not queued again; and whatever the jitter, each of the
\* three waits is longer than the one before.
C18_RecoversAfterThree429 ==
  \A i \in DOMAIN eScript :
    eScript[i] = ThreeTimes429 =>
      LET run == RetryRun(eScript[i], EmbedMaxRetries, 0)
      IN /\ run.status = "returned"
         /\ run.calls = 4
         /\ Len(run.delays) = 3
         /\ \A k \in 1..2 : \A p, q \in JitterPercents :
              Jitter(run.delays[k], p) < Jitter(run.delays[k + 1], q)
         /\ i \in DOMAIN eResults =>
              /\ eResults[i] = ProviderVector(i, eDim)
              /\ eResults[i] # ZeroVector
              /\ i \notin SeqRange(eQueue)
         /\ eStatus = "done" /\ eN > 0 => eOut[i + 1] = ProviderVector(i, eDim)

\* a finished run over several chunks in which such a chunk came after one
\* whose embedding failed for good
C18_Witness ==
  /\ eStatus = "done"
  /\ eN >= 2
  /\ eScript[0] = <<BadKey>>
  /\ eScript[1] = ThreeTimes429
  /\ eOut[1] = ZeroVector
  /\ eOut[2] = ProviderVector(1, eDim)

\* C19: the first batch has size initialBatchSize; the batch that follows a
\* failed batch (one none of whose embeddings could be obtained) has half
\* the size, rounded down and not below minBatchSize; after a batch that did
\* not fail the size stays or grows by one, not above initialBatchSize; and
\* every batch size lies between minBatchSize and initialBatchSize.
C19_AdaptiveBatchSize ==
  /\ eMinBatch <= eBatchSize /\ eBatchSize <= eInitBatch
  /\ \A k \in DOMAIN eBatches :
       /\ k = 1 => eBatches[k].size = eInitBatch
       /\ (k > 1 /\ eBatches[k - 1].failed)
            => eBatches[k].size = Max(eMinBatch, eBatches[k - 1].size \div 2)
       /\ (k > 1 /\ ~eBatches[k - 1].failed)
            => eBatches[k].size \in {eBatches[k - 1].size,
                                     Min(eInitBatch, eBatches[k - 1].size + 1)}

\* C20: a failed batch (one none of whose embeddings could be obtained) is
\* put back: each of its chunks is in the queue again or was taken again by
\* a later batch; and when the function has returned, a chunk whose
\* embedding failed has the zero vector.
C20_FailedBatchRequeued ==
  /\ \A k \in DOMAIN eBatches :
       eBatches[k].failed =>
         \A c \in SeqRange(eBatches[k].chunks) :
           \/ c \in SeqRange(eQueue)
           \/ \E later \in (k + 1)..Len(eBatches) : c \in SeqRange(eBatches[later].chunks)
  /\ (eStatus = "done" /\ eN > 0)
       => \A c \in 0..(eN - 1) : EmbeddingFails(eScript[c]) => eOut[c + 1] = ZeroVector

\* the batch function under weak fairness of its loop
SpecEmbedLive == SpecEmbed /\ WF_vars(NextEmbed)

\* whatever the provider does, the function returns
EmbedTerminates == <>(eStatus = "done")

\* C21: getRelevantDocsFromMemory tries the query variations in list order
\* and leaves the loop exactly when the accumulated results, counted without
\* duplicates (same deduplication fingerprint), number at least 5: it has
\* not left the loop while fewer unique results are accumulated, and it
\* tries no further variation once 5 unique results are accumulated.
C21_StopsAtFiveUnique ==
  /\ mBreak => ReachedTargetUnique(mAll)
  /\ (mStatus = "loop" /\ ReachedTargetUnique(mAll)) => mBreak
  /\ mTried <= mVariations

\* the list is free of documents with the same deduplication fingerprint
Deduplicated(docs) ==
  \A i, j \in DOMAIN docs : i # j => ContentId(docs[i]) # ContentId(docs[j])

C23_StrategyOrderAndKeywordScope ==
  sVector.status = "returned" =>
    LET tried == StrategiesTried(sEnv, sQuery)
    IN /\ tried \in {<<"rpc">>, <<"rpc", "sql">>, <<"rpc", "sql", "text">>}
       /\ Len(tried) >= 2 => sEnv.rpc = "error"
       /\ Len(tried) = 3 => sEnv.sql = "error"
       /\ Len(tried) < 3 => sVector.rows = VectorMatches(sTable, sQuery.limit)
       /\ Len(tried) = 3 =>
            \A i \in DOMAIN sVector.rows :
              /\ sVector.rows[i].row \in sUser.words
              /\ sVector.rows[i].row \in sUser.active

\* the distinct keys of a citation list in first-seen order
RECURSIVE DistinctKeys(_, _)
DistinctKeys(citations, seen) ==
  IF citations = << >> THEN << >>
  ELSE LET key == SourceKey(Head(citations))
       IN IF key \in seen THEN DistinctKeys(Tail(citations), seen)
          ELSE <<key>> \o DistinctKeys(Tail(citations), seen \cup {key})

\* C24: ensureReferences returns an answer that already has a references
\* section unchanged; to an answer without one and a non-empty citation list
\* it appends one section with one line per distinct (source, page) key, in
\* first-seen order, the k-th line numbered k; applying it again to its own
\* result changes nothing.
C24_ReferencesNumberedInOrder ==
  /\ (fStatus # "start" /\ HasReferencesSection(fResponse)) => fOut = fResponse
  /\ (fStatus # "start" /\ ~fResponse.empty /\ ~HasReferencesSection(fResponse)
        /\ fCitations # << >>)
       => /\ Len(fOut.sections) = 1
          /\ LET section == fOut.sections[1]
                 keys == DistinctKeys(fCitations, {})
             IN /\ Len(section) = Len(keys)
                /\ \A k \in DOMAIN section :
                     section[k].key = keys[k] /\ section[k].number = k
  /\ fStatus = "twice" => fTwice = fOut

\* C25: whatever the interleaving of ingestion, removal and clear calls at
\* their awaits, once every call has finished the in-memory store holds
\* exactly the chunks of the documents whose ingestion completed and that
\* were not removed or cleared afterwards: each such chunk once, no other.
C25_StoreNeverCorrupted ==
  Quiescent =>
    /\ \A d \in cCompleted : \A i \in 1..ConcurrentChunks :
         Cardinality({k \in DOMAIN CurrentEntries : CurrentEntries[k] = <<d, i>>}) = 1
    /\ \A k \in DOMAIN CurrentEntries : CurrentEntries[k][1] \in cCompleted

\* C26: after clearRAGSystem(d) returned true the in-memory store has no
\* entry of d, has every entry of every other document it had before the
\* call, however many, and d is not in the active-document set; after it
\* returned false the store and the active-document set are as before.
C26_ClearRemovesOnlyThatDocument ==
  /\ xCall.result = "true" =>
       /\ xStore.count[xCall.documentId] = 0
       /\ \A o \in Docs \ {xCall.documentId} : xStore.count[o] = xCall.store.count[o]
       /\ xCall.documentId \notin xDocumentIds
  /\ xCall.result = "false" =>
       /\ xStore = xCall.store
       /\ xDocumentIds = xCall.documentIds

\* the rows of the stored document
RowsOfStoredDoc(table) == {r \in table : r.document_id = StoredDoc}

\* the latest call reprocessed a document that had more rows than it has
\* chunks now
Reprocessed ==
  /\ tLast.status = "returned"
  /\ Cardinality(RowsOfStoredDoc(tBefore)) > tChunkCount

NoTypingIndicator == \A i \in 1..Len(hMessages) : ~hMessages[i].typing

\* a call that passed the precondition checks has run to its end
SendFinished == hPc = "idle" /\ hCall.outcome \in {"success", "queryFailed", "saveFailed"}

\* the message list a finished call leaves, by the path it took
FinishedAsStated ==
  SendFinished =>
    LET n == Len(hCall.before) IN
    /\ ~hIsProcessing
    /\ NoTypingIndicator
    /\ hCall.outcome = "success" =>
         /\ Len(hMessages) >= n + 2
         /\ SubSeq(hMessages, 1, n) = hCall.before
         /\ hMessages[n + 1].role = "user" /\ hMessages[n + 1].content = hCall.content
         /\ hMessages[n + 2].role = "assistant"
         /\ hMessages[n + 2].content = AssistantMessageContent(hCall.response)
    /\ hCall.outcome = "queryFailed" =>
         /\ hMessages = Append(hCall.before, UserMessage(hCall.content, hCall.time))
         /\ hError # "null"
    /\ hCall.outcome = "saveFailed" => hMessages = hCall.before

StoreDocumentIds ==
  {vectorStore.docs[i].chunk[1] : i \in 1..Len(vectorStore.docs)}

\* C29: after any sequence of ingestion, context update, removal and clear
\* operations the active-document id set equals the set of document ids that
\* have entries in the in-memory vector store; in particular a non-empty
\* store comes with a non-empty active set.
C29_ActiveSetMatchesStore ==
  /\ documentIds = StoreDocumentIds
  /\ (vectorStore.exists /\ Len(vectorStore.docs) > 0) => documentIds # {}

\* a turn of the upload loop in which the file was saved and processed
FileProcessed ==
  /\ uUpload.active
  /\ uUpload'.active
  /\ uUpload'.processed = uUpload.processed + 1

\* C30: a PDF uploaded through processPdfForRag by a signed-in user creates
\* exactly one row in table documents, the row whose id the chunks, the
\* active-document set and the hook's document list carry.
C30_OneRowPerUploadedPdf ==
  [][FileProcessed => uStored' = uStored + 1]_vars

=========================================================================
